---- MODULE Spec2Model ----
(***************************************************************************)
(* tmux-nerd-icons: the configuration parser (scripts/yaml_parser.py), the *)
(* SSH command-line parser (scripts/ssh_parser.py) and the icon resolver   *)
(* with its hot-reload cache (scripts/icon_resolver.py).                   *)
(*                                                                         *)
(* A Python str is a sequence of one-character strings, a dict is a        *)
(* sequence of [k, v] pairs in insertion order, None is a tagged value.    *)
(* Line indexes are 1-based here (Python's idx + 1).                       *)
(***************************************************************************)
EXTENDS Integers, Sequences, FiniteSets, TLC

VARIABLES files, _config_cache, _config_mtime, _config_path_cache, last

vars == <<files, _config_cache, _config_mtime, _config_path_cache, last>>

(***************************************************************************)
(* str methods                                                             *)
(***************************************************************************)
UpperChars == <<"A","B","C","D","E","F","G","H","I","J","K","L","M","N","O","P","Q","R","S","T","U","V","W","X","Y","Z">>

LowerChars == <<"a","b","c","d","e","f","g","h","i","j","k","l","m","n","o","p","q","r","s","t","u","v","w","x","y","z">>

DigitChars == <<"0","1","2","3","4","5","6","7","8","9">>

Whitespace == {" ", "\t"}

IsUpper(c) == \E i \in 1..Len(UpperChars) : UpperChars[i] = c

IsLower(c) == \E i \in 1..Len(LowerChars) : LowerChars[i] = c

IsDigit(c) == \E i \in 1..Len(DigitChars) : DigitChars[i] = c

IsAlnum(c) == IsUpper(c) \/ IsLower(c) \/ IsDigit(c)

lower_char(c) ==
    IF IsUpper(c) THEN LowerChars[CHOOSE i \in 1..Len(UpperChars) : UpperChars[i] = c] ELSE c

\* str.lower()
lower(s) == [i \in 1..Len(s) |-> lower_char(s[i])]

\* number of leading whitespace characters
LeadingWs(s) ==
    IF \A i \in 1..Len(s) : s[i] \in Whitespace THEN Len(s)
    ELSE (CHOOSE i \in 1..Len(s) : s[i] \notin Whitespace /\ \A j \in 1..(i - 1) : s[j] \in Whitespace) - 1

\* number of trailing whitespace characters
TrailingWs(s) ==
    IF \A i \in 1..Len(s) : s[i] \in Whitespace THEN Len(s)
    ELSE Len(s) - (CHOOSE i \in 1..Len(s) : s[i] \notin Whitespace /\ \A j \in (i + 1)..Len(s) : s[j] \in Whitespace)

\* str.lstrip()
lstrip(s) == SubSeq(s, LeadingWs(s) + 1, Len(s))

\* str.rstrip()
rstrip(s) == SubSeq(s, 1, Len(s) - TrailingWs(s))

\* str.strip()
strip(s) == rstrip(lstrip(s))

OccursAt(s, sub, i) ==
    /\ i + Len(sub) - 1 <= Len(s)
    /\ \A j \in 1..Len(sub) : s[i + j - 1] = sub[j]

\* sub in s
Contains(s, sub) == sub = <<>> \/ \E i \in 1..Len(s) : OccursAt(s, sub, i)

\* 1-based position of the first occurrence of a non-empty sub in s, 0 when absent
find(s, sub) ==
    IF \E i \in 1..Len(s) : OccursAt(s, sub, i)
    THEN CHOOSE i \in 1..Len(s) : OccursAt(s, sub, i) /\ \A j \in 1..(i - 1) : ~OccursAt(s, sub, j)
    ELSE 0

\* s.split(sep, 1)[0] and s.split(sep, 1)[1], for sep in s
SplitHead(s, sep) == SubSeq(s, 1, find(s, sep) - 1)

SplitTail(s, sep) == SubSeq(s, find(s, sep) + Len(sep), Len(s))

\* s.startswith(prefix)
startswith(s, prefix) == Len(prefix) <= Len(s) /\ SubSeq(s, 1, Len(prefix)) = prefix

\* s.replace(old, new) for single characters
replace_char(s, old, new) == [i \in 1..Len(s) |-> IF s[i] = old THEN new ELSE s[i]]

(***************************************************************************)
(* dict: insertion-ordered pairs; a value is a str or a nested dict        *)
(***************************************************************************)
Str(s) == [t |-> "str", s |-> s, d |-> <<>>]

Dict(d) == [t |-> "dict", s |-> <<>>, d |-> d]

None == [t |-> "None", s |-> <<>>, d |-> <<>>]

DictHas(d, k) == \E i \in 1..Len(d) : d[i].k = k

DictGet(d, k) == d[CHOOSE i \in 1..Len(d) : d[i].k = k].v

\* d.get(k): None when the key is missing
DictGetOrNone(d, k) == IF DictHas(d, k) THEN DictGet(d, k) ELSE None

\* d[k] = v: an existing key keeps its position and takes the new value
DictSet(d, k, v) ==
    IF DictHas(d, k)
    THEN [i \in 1..Len(d) |-> IF d[i].k = k THEN [k |-> k, v |-> v] ELSE d[i]]
    ELSE Append(d, [k |-> k, v |-> v])

\* bool(value) of a str, dict or None
Truthy(v) == (v.t = "str" /\ v.s # <<>>) \/ (v.t = "dict" /\ v.d # <<>>)

(***************************************************************************)
(* yaml_parser.py                                                          *)
(***************************************************************************)
MAX_CONFIG_SIZE == 1048576

MAX_REGEX_LENGTH == 500

Quotes == {"\"", "'"}

_strip_yaml_value(val) ==
    LET v1 == strip(val)
        v2 == IF Contains(v1, <<" ", "#">>) THEN strip(SplitHead(v1, <<" ", "#">>)) ELSE v1
    IN  IF Len(v2) >= 2 /\ v2[1] \in Quotes /\ v2[Len(v2)] = v2[1]
        THEN SubSeq(v2, 2, Len(v2) - 1)
        ELSE v2

_normalize_yaml_key(raw, lowercase) ==
    LET k1 == strip(raw)
        k2 == IF Len(k1) >= 2 /\ k1[1] \in Quotes /\ k1[Len(k1)] = k1[1]
              THEN SubSeq(k1, 2, Len(k1) - 1)
              ELSE k1
    IN  IF lowercase THEN lower(k2) ELSE k2

_get_indent_level(line) == Len(line) - Len(lstrip(line))

_parse_bool(val) ==
    LET v == strip(lower(val))
    IN  v \in {<<"t","r","u","e">>, <<"y","e","s">>, <<"1">>, <<"o","n">>}

_is_inline_yaml_value(rest) ==
    IF rest = <<>> THEN FALSE
    ELSE IF rest[1] \in {"|", ">", "{", "["} THEN FALSE
    ELSE ~(rest[1] = "#" /\ (Len(rest) = 1 \/ rest[2] = " "))

\* _validate_pattern_length(pattern, line_number): the exception it raises, "" when it
\* returns. The module defines it and calls it from nowhere: no parsing function below
\* uses it.
_validate_pattern_length(pattern, line_number) ==
    IF Len(pattern) > MAX_REGEX_LENGTH THEN "YamlParseError" ELSE ""

\* the value of block_indent before the first content line (Python's None)
NoIndent == 0 - 1

\* one item yielded by _iter_yaml_block: inline = FALSE stands for a None value
YieldItem(key, inline, val, idx, indent) ==
    [key |-> key, inline |-> inline, val |-> val, idx |-> idx, indent |-> indent]

RECURSIVE IterFrom(_, _, _, _, _)
\* _iter_yaml_block leaving the block at a line without a colon, where the code goes on
IterFromColonless(lines, target_label, idx, in_block, block_indent) ==
    IF idx > Len(lines) THEN <<>>
    ELSE
      LET raw == lines[idx]
          stripped == strip(raw)
          current_indent == _get_indent_level(raw)
          bi == IF block_indent = NoIndent THEN current_indent ELSE block_indent
          key == _normalize_yaml_key(SplitHead(stripped, <<":">>), FALSE)
          rest == strip(SplitTail(stripped, <<":">>))
      IN  IF ~in_block
          THEN IterFrom(lines, target_label, idx + 1,
                        stripped = target_label \/ startswith(stripped, target_label \o <<" ">>),
                        block_indent)
          ELSE IF stripped = <<>> \/ stripped[1] = "#"
          THEN IterFrom(lines, target_label, idx + 1, TRUE, block_indent)
          ELSE IF current_indent < bi THEN <<>>
          ELSE IF current_indent # bi
          THEN IterFrom(lines, target_label, idx + 1, TRUE, bi)
          ELSE IF ~Contains(stripped, <<":">>)
          THEN <<>>
          ELSE IF key = <<>>
          THEN IterFrom(lines, target_label, idx + 1, TRUE, bi)
          ELSE IF _is_inline_yaml_value(rest)
          THEN <<YieldItem(key, TRUE, _strip_yaml_value(rest), idx, current_indent)>>
               \o IterFrom(lines, target_label, idx + 1, TRUE, bi)
          ELSE <<YieldItem(key, FALSE, <<>>, idx, current_indent)>>
               \o IterFrom(lines, target_label, idx + 1, TRUE, bi)

\* the for loop of _iter_yaml_block from line idx on
IterFrom(lines, target_label, idx, in_block, block_indent) ==
    IF idx > Len(lines) THEN <<>>
    ELSE
      LET raw == lines[idx]
          stripped == strip(raw)
          current_indent == _get_indent_level(raw)
          bi == IF block_indent = NoIndent THEN current_indent ELSE block_indent
          key == _normalize_yaml_key(SplitHead(stripped, <<":">>), FALSE)
          rest == strip(SplitTail(stripped, <<":">>))
      IN  IF ~in_block
          THEN IterFrom(lines, target_label, idx + 1,
                        stripped = target_label \/ startswith(stripped, target_label \o <<" ">>),
                        block_indent)
          ELSE IF stripped = <<>> \/ stripped[1] = "#"
          THEN IterFrom(lines, target_label, idx + 1, TRUE, block_indent)
          ELSE IF current_indent < bi THEN <<>>
          ELSE IF current_indent # bi
          THEN IterFrom(lines, target_label, idx + 1, TRUE, bi)
          ELSE IF ~Contains(stripped, <<":">>)
          THEN IterFrom(lines, target_label, idx + 1, TRUE, bi)
          ELSE IF key = <<>>
          THEN IterFrom(lines, target_label, idx + 1, TRUE, bi)
          ELSE IF _is_inline_yaml_value(rest)
          THEN <<YieldItem(key, TRUE, _strip_yaml_value(rest), idx, current_indent)>>
               \o IterFrom(lines, target_label, idx + 1, TRUE, bi)
          ELSE <<YieldItem(key, FALSE, <<>>, idx, current_indent)>>
               \o IterFrom(lines, target_label, idx + 1, TRUE, bi)

_iter_yaml_block(lines, block_label) ==
    IterFrom(lines, block_label \o <<":">>, 1, FALSE, NoIndent)

RECURSIVE _parse_nested_block(_, _, _)
RECURSIVE NestedLoop(_, _, _, _, _)
\* the while loop of _parse_nested_block at line idx
NestedLoop(lines, idx, base_indent, block_indent, result) ==
    IF idx > Len(lines) THEN [result |-> result, idx |-> idx]
    ELSE
      LET raw == lines[idx]
          stripped == strip(raw)
          current_indent == _get_indent_level(raw)
          bi == IF block_indent = NoIndent THEN current_indent ELSE block_indent
          key == _normalize_yaml_key(SplitHead(stripped, <<":">>), FALSE)
          rest == strip(SplitTail(stripped, <<":">>))
          sub == _parse_nested_block(lines, idx + 1, current_indent)
      IN  IF stripped = <<>> \/ stripped[1] = "#"
          THEN NestedLoop(lines, idx + 1, base_indent, block_indent, result)
          ELSE IF current_indent <= base_indent THEN [result |-> result, idx |-> idx]
          ELSE IF current_indent > bi
          THEN NestedLoop(lines, idx + 1, base_indent, bi, result)
          ELSE IF ~Contains(stripped, <<":">>)
          THEN NestedLoop(lines, idx + 1, base_indent, bi, result)
          ELSE IF key = <<>>
          THEN NestedLoop(lines, idx + 1, base_indent, bi, result)
          ELSE IF _is_inline_yaml_value(rest)
          THEN NestedLoop(lines, idx + 1, base_indent, bi,
                          DictSet(result, key, Str(_strip_yaml_value(rest))))
          ELSE NestedLoop(lines, sub.idx, base_indent, bi,
                          IF sub.result # <<>> THEN DictSet(result, key, Dict(sub.result))
                          ELSE result)

_parse_nested_block(lines, start_idx, base_indent) ==
    NestedLoop(lines, start_idx, base_indent, NoIndent, <<>>)

\* IconConfig(): the defaults of the dataclass
DefaultIconConfig ==
    [fallback_icon |-> <<"U+F0D59">>,
     show_name |-> FALSE,
     use_process_name |-> FALSE,
     prefer_host_icon |-> TRUE,
     ring_color_active |-> <<"#","8","7","5","f","f","f">>,
     ring_color_inactive |-> <<"#","4","5","4","7","5","a">>,
     icon_color |-> <<"#","c","d","d","6","f","4">>,
     alert_color |-> <<"#","f","3","8","b","a","8">>,
     multi_pane_icon |-> <<>>,
     layout_glyphs |-> <<>>]

\* one iteration of the loop of _parse_config_section
ConfigItem(config, item) ==
    LET norm_key == replace_char(lower(item.key), "-", "_")
        value == item.val
    IN  IF ~item.inline THEN config
        ELSE IF norm_key = <<"f","a","l","l","b","a","c","k","_","i","c","o","n">> /\ value # <<>>
        THEN [config EXCEPT !.fallback_icon = value]
        ELSE IF norm_key = <<"s","h","o","w","_","n","a","m","e">>
        THEN [config EXCEPT !.show_name = _parse_bool(value)]
        ELSE IF norm_key = <<"u","s","e","_","p","r","o","c","e","s","s","_","n","a","m","e">>
        THEN [config EXCEPT !.use_process_name = _parse_bool(value)]
        ELSE IF norm_key = <<"p","r","e","f","e","r","_","h","o","s","t","_","i","c","o","n">>
        THEN [config EXCEPT !.prefer_host_icon = _parse_bool(value)]
        ELSE IF norm_key \in {<<"r","i","n","g","_","c","o","l","o","r","_","a","c","t","i","v","e">>,
                              <<"i","n","d","e","x","_","c","o","l","o","r","_","a","c","t","i","v","e">>}
                /\ value # <<>>
        THEN [config EXCEPT !.ring_color_active = value]
        ELSE IF norm_key \in {<<"r","i","n","g","_","c","o","l","o","r","_","i","n","a","c","t","i","v","e">>,
                              <<"i","n","d","e","x","_","c","o","l","o","r","_","i","n","a","c","t","i","v","e">>}
                /\ value # <<>>
        THEN [config EXCEPT !.ring_color_inactive = value]
        ELSE IF norm_key = <<"i","c","o","n","_","c","o","l","o","r">> /\ value # <<>>
        THEN [config EXCEPT !.icon_color = value]
        ELSE IF norm_key = <<"a","l","e","r","t","_","c","o","l","o","r">> /\ value # <<>>
        THEN [config EXCEPT !.alert_color = value]
        ELSE IF norm_key = <<"m","u","l","t","i","_","p","a","n","e","_","i","c","o","n">> /\ value # <<>>
        THEN [config EXCEPT !.multi_pane_icon = value]
        ELSE config

RECURSIVE ConfigFold(_, _, _)
ConfigFold(items, i, config) ==
    IF i > Len(items) THEN config
    ELSE ConfigFold(items, i + 1, ConfigItem(config, items[i]))

_parse_config_section(lines) ==
    ConfigFold(_iter_yaml_block(lines, <<"c","o","n","f","i","g">>), 1, DefaultIconConfig)

\* one iteration of the loop of _parse_nested_section
\* _parse_nested_section keeping the first value of a key
NestedSectionItemKeepsFirst(lines, result, item) ==
    LET nested == _parse_nested_block(lines, item.idx + 1, item.indent).result
    IN  IF DictHas(result, item.key) THEN result
        ELSE IF item.inline THEN DictSet(result, item.key, Str(item.val))
        ELSE IF nested # <<>> THEN DictSet(result, item.key, Dict(nested))
        ELSE result

NestedSectionItem(lines, result, item) ==
    LET nested == _parse_nested_block(lines, item.idx + 1, item.indent).result
    IN  IF item.inline THEN DictSet(result, item.key, Str(item.val))
        ELSE IF nested # <<>> THEN DictSet(result, item.key, Dict(nested))
        ELSE result

RECURSIVE NestedSectionFold(_, _, _, _)
NestedSectionFold(lines, items, i, result) ==
    IF i > Len(items) THEN result
    ELSE NestedSectionFold(lines, items, i + 1, NestedSectionItem(lines, result, items[i]))

_parse_nested_section(lines, section) ==
    NestedSectionFold(lines, _iter_yaml_block(lines, section), 1, <<>>)

RECURSIVE SimpleSectionFold(_, _, _)
\* the loop of _parse_simple_section and of _parse_layout_glyphs over one block
SimpleSectionFold(items, i, result) ==
    IF i > Len(items) THEN result
    ELSE SimpleSectionFold(items, i + 1,
                           IF items[i].inline
                           THEN DictSet(result, items[i].key, Str(items[i].val))
                           ELSE result)

_parse_simple_section(lines, section) ==
    SimpleSectionFold(_iter_yaml_block(lines, section), 1, <<>>)

_parse_layout_glyphs(lines) ==
    SimpleSectionFold(_iter_yaml_block(lines, <<"l","a","y","o","u","t","-","g","l","y","p","h","s">>), 1,
        SimpleSectionFold(_iter_yaml_block(lines, <<"l","a","y","o","u","t","-","g","l","y","p","s">>), 1, <<>>))

\* content.splitlines() is the representation: a text is the sequence of its lines
load_config_from_string(lines) ==
    [config |-> [_parse_config_section(lines) EXCEPT !.layout_glyphs = _parse_layout_glyphs(lines)],
     icons |-> _parse_nested_section(lines, <<"i","c","o","n","s">>),
     title_icons |-> _parse_simple_section(lines, <<"t","i","t","l","e","_","i","c","o","n","s">>),
     sessions |-> _parse_simple_section(lines, <<"s","e","s","s","i","o","n","s">>),
     hosts |-> _parse_nested_section(lines, <<"h","o","s","t","s">>)]

(***************************************************************************)
(* ssh_parser.py                                                           *)
(***************************************************************************)
_SSH_COMMANDS ==
    {<<"s","s","h">>, <<"s","l","o","g","i","n">>, <<"m","o","s","h">>,
     <<"m","o","s","h","-","c","l","i","e","n","t">>}

_SSH_OPTIONS_WITH_ARG ==
    {<<"-", c>> : c \in {"b", "c", "D", "E", "F", "I", "i", "J", "L", "l", "m", "O", "o", "p",
                         "Q", "R", "S", "W", "w", "B"}}

\* a list of str as a value
List(l) == [t |-> "list", s |-> <<>>, d |-> l]

\* length of the leading run of non-whitespace characters
WordLen(s) ==
    IF \A i \in 1..Len(s) : s[i] \notin Whitespace THEN Len(s)
    ELSE (CHOOSE i \in 1..Len(s) : s[i] \in Whitespace /\ \A j \in 1..(i - 1) : s[j] \notin Whitespace) - 1

RECURSIVE split(_)
\* str.split(): the maximal runs of non-whitespace characters
split(s) ==
    LET s1 == lstrip(s)
    IN  IF s1 = <<>> THEN <<>>
        ELSE <<SubSeq(s1, 1, WordLen(s1))>> \o split(SubSeq(s1, WordLen(s1) + 1, Len(s1)))

RECURSIVE join(_, _)
\* sep.join(parts)
join(sep, parts) ==
    IF parts = <<>> THEN <<>>
    ELSE IF Len(parts) = 1 THEN parts[1]
    ELSE parts[1] \o sep \o join(sep, Tail(parts))

\* os.path.basename(p): what follows the last "/"
basename(p) ==
    IF \E i \in 1..Len(p) : p[i] = "/"
    THEN SubSeq(p, (CHOOSE i \in 1..Len(p) : p[i] = "/" /\ \A j \in (i + 1)..Len(p) : p[j] # "/") + 1, Len(p))
    ELSE p

RECURSIVE TakeFrom(_, _)
\* the while loop of _take_first_non_option at position i
TakeFrom(args, i) ==
    IF i > Len(args) THEN None
    ELSE IF args[i] = <<"-", "-">>
    THEN (IF i + 1 <= Len(args) THEN Str(args[i + 1]) ELSE None)
    ELSE IF startswith(args[i], <<"-">>)
    THEN (IF args[i] \in _SSH_OPTIONS_WITH_ARG THEN TakeFrom(args, i + 2)
          \* an option with its value glued on and a plain flag both advance by one
          ELSE TakeFrom(args, i + 1))
    ELSE Str(args[i])

\* _take_first_non_option taking the first argument without a leading "-", whatever
\* option precedes it
_take_first_without_dash(args) ==
    IF \E i \in 1..Len(args) : ~startswith(args[i], <<"-">>)
    THEN Str(args[CHOOSE i \in 1..Len(args) :
                      /\ ~startswith(args[i], <<"-">>)
                      /\ \A j \in 1..(i - 1) : startswith(args[j], <<"-">>)])
    ELSE None

_take_first_non_option(args) == TakeFrom(args, 1)

\* _normalize_hostname cutting at the first ":" whether or not the host is bracketed
_normalize_hostname_port_only(host) ==
    LET h1 == IF Contains(host, <<"@">>) THEN SplitTail(host, <<"@">>) ELSE host
        h2 == strip(h1)
    IN  lower(IF Contains(h2, <<":">>) THEN SplitHead(h2, <<":">>) ELSE h2)

_normalize_hostname(host) ==
    LET h1 == IF Contains(host, <<"@">>) THEN SplitTail(host, <<"@">>) ELSE host
        h2 == strip(h1)
        bracket_end == find(h2, <<"]">>) - 1
        h3 == IF startswith(h2, <<"[">>)
              THEN (IF bracket_end > 0 THEN SubSeq(h2, 2, bracket_end) ELSE SubSeq(h2, 2, Len(h2)))
              ELSE IF Contains(h2, <<":">>) THEN SplitHead(h2, <<":">>)
              ELSE h2
    IN  lower(h3)

\* parse_ssh_host of a str (Str) or of a sequence of arguments (List)
parse_ssh_host(cmdline) ==
    LET argv == IF cmdline.t = "str" THEN split(cmdline.s) ELSE cmdline.d
        host == _take_first_non_option(Tail(argv))
    IN  IF argv = <<>> THEN None
        ELSE IF basename(argv[1]) \notin _SSH_COMMANDS THEN None
        ELSE IF ~Truthy(host) THEN None
        ELSE Str(_normalize_hostname(host.s))

(***************************************************************************)
(* fnmatch.fnmatch and re.search, as icon_resolver.py uses them            *)
(***************************************************************************)
\* the printable ASCII characters in code order, from code 32 on (U+0060 is the backquote)
AsciiChars ==
    <<" ","!","\"","#","$","%","&","'","(",")","*","+",",","-",".","/","0","1","2","3","4","5","6","7","8","9",":",";","<","=",">","?","@","A","B","C","D","E","F","G","H","I","J","K","L","M","N","O","P","Q","R","S","T","U","V","W","X","Y","Z","[","\\","]","^","_","U+0060","a","b","c","d","e","f","g","h","i","j","k","l","m","n","o","p","q","r","s","t","u","v","w","x","y","z","{","|","}","~">>

Ord(c) == 31 + (CHOOSE i \in 1..Len(AsciiChars) : AsciiChars[i] = c)

\* the position of the "]" closing the set opened at pat[j] = "[", 0 when there is none
SetEnd(pat, j) ==
    LET j1 == IF j + 1 <= Len(pat) /\ pat[j + 1] = "!" THEN j + 2 ELSE j + 1
        j2 == IF j1 <= Len(pat) /\ pat[j1] = "]" THEN j1 + 1 ELSE j1
    IN  IF \E k \in j2..Len(pat) : pat[k] = "]"
        THEN CHOOSE k \in j2..Len(pat) : pat[k] = "]" /\ \A m \in j2..(k - 1) : pat[m] # "]"
        ELSE 0

RECURSIVE InSet(_, _, _)
\* c is a member of the set body stuff, read from position k: single characters and lo-hi ranges
InSet(c, stuff, k) ==
    IF k > Len(stuff) THEN FALSE
    ELSE IF k + 2 <= Len(stuff) /\ stuff[k + 1] = "-"
    THEN (Ord(stuff[k]) <= Ord(c) /\ Ord(c) <= Ord(stuff[k + 2])) \/ InSet(c, stuff, k + 3)
    ELSE c = stuff[k] \/ InSet(c, stuff, k + 1)

\* c matches the set pat[j..e], e the closing bracket: [seq] and [!seq]
SetMatches(c, pat, j, e) ==
    LET stuff == SubSeq(pat, j + 1, e - 1)
    IN  IF stuff = <<"!">> THEN TRUE
        ELSE IF stuff[1] = "!" THEN ~InSet(c, stuff, 2)
        ELSE InSet(c, stuff, 1)

RECURSIVE GlobFrom(_, _, _, _)
\* name[i..] matches pat[j..]
GlobFrom(name, i, pat, j) ==
    IF j > Len(pat) THEN i > Len(name)
    ELSE IF pat[j] = "*" THEN \E k \in i..(Len(name) + 1) : GlobFrom(name, k, pat, j + 1)
    ELSE IF pat[j] = "?" THEN i <= Len(name) /\ GlobFrom(name, i + 1, pat, j + 1)
    ELSE IF pat[j] = "[" /\ SetEnd(pat, j) # 0
    THEN i <= Len(name) /\ SetMatches(name[i], pat, j, SetEnd(pat, j))
         /\ GlobFrom(name, i + 1, pat, SetEnd(pat, j) + 1)
    ELSE i <= Len(name) /\ name[i] = pat[j] /\ GlobFrom(name, i + 1, pat, j + 1)

\* fnmatch(name, pat) on a POSIX system (normcase is the identity)
fnmatch(name, pat) == GlobFrom(name, 1, pat, 1)

\* sre_constants.MAXREPEAT = 4294967295 in decimal digits: a repetition count from here on
\* makes the pattern parser raise OverflowError
MAXREPEAT == <<"4","2","9","4","9","6","7","2","9","5">>

DigitValue(c) == (CHOOSE i \in 1..Len(DigitChars) : DigitChars[i] = c) - 1

\* the digits without their leading zeros
NoLeadingZeros(ds) ==
    IF \A i \in 1..Len(ds) : ds[i] = "0" THEN <<>>
    ELSE SubSeq(ds, CHOOSE i \in 1..Len(ds) : ds[i] # "0" /\ \A j \in 1..(i - 1) : ds[j] = "0", Len(ds))

\* int(a) >= int(b) for digit strings
DigitsGe(a, b) ==
    LET x == NoLeadingZeros(a)
        y == NoLeadingZeros(b)
    IN  \/ Len(x) > Len(y)
        \/ Len(x) = Len(y) /\ x = y
        \/ Len(x) = Len(y) /\ \E i \in 1..Len(x) : DigitValue(x[i]) > DigitValue(y[i])
                                                  /\ \A j \in 1..(i - 1) : x[j] = y[j]

RECURSIVE ParseInt(_)
\* int(digits)
ParseInt(digits) ==
    IF digits = <<>> THEN 0
    ELSE 10 * ParseInt(SubSeq(digits, 1, Len(digits) - 1))
         + DigitValue(digits[Len(digits)])

\* the position of the "}" ending a {n} quantifier that starts at p[j] = "{", 0 when p[j] starts none
RepeatEnd(p, j) ==
    IF j <= Len(p) /\ p[j] = "{" /\ \E k \in (j + 2)..Len(p) : p[k] = "}" /\ \A m \in (j + 1)..(k - 1) : IsDigit(p[m])
    THEN CHOOSE k \in (j + 2)..Len(p) : p[k] = "}" /\ \A m \in (j + 1)..(k - 1) : IsDigit(p[m])
    ELSE 0

RepeatDigits(p, j) == SubSeq(p, j + 1, RepeatEnd(p, j) - 1)

\* a count of more than six digits exceeds the length of every text matched here
CountFits(p, j) == Len(NoLeadingZeros(RepeatDigits(p, j))) <= 6

RepeatCount(p, j) == ParseInt(RepeatDigits(p, j))

IsQuantifier(p, j) == j <= Len(p) /\ (p[j] \in {"*", "+", "?"} \/ RepeatEnd(p, j) # 0)

Count(p, c) == Cardinality({i \in 1..Len(p) : p[i] = c})

\* what compiling the pattern does: "ok", or the exception it raises.  The pattern syntax
\* covered is: literals, ".", a leading "^", a trailing "$", and the quantifiers * and {n}
\* after a literal or "."; unbalanced parentheses and a quantifier with nothing to repeat
\* make re.error, a count of MAXREPEAT or more makes OverflowError.
re_compile(p) ==
    IF Count(p, "(") # Count(p, ")") THEN "re.error"
    ELSE IF IsQuantifier(p, 1) \/ (p[1] = "^" /\ IsQuantifier(p, 2)) THEN "re.error"
    ELSE IF \E j \in 1..Len(p) : RepeatEnd(p, j) # 0 /\ DigitsGe(RepeatDigits(p, j), MAXREPEAT) THEN "OverflowError"
    ELSE "ok"

\* re.IGNORECASE comparison of one pattern atom with one character
AtomMatches(a, c) == a = "." \/ lower_char(a) = lower_char(c)

RECURSIVE ReMatchAt(_, _, _, _)
\* the pattern from position j on matches a prefix of text[i..]
ReMatchAt(p, j, text, i) ==
    IF j > Len(p) THEN TRUE
    ELSE IF p[j] = "$" /\ j = Len(p) THEN i > Len(text)
    ELSE IF j + 1 <= Len(p) /\ p[j + 1] = "*"
    THEN \E n \in 0..(Len(text) - i + 1) :
            /\ \A m \in 0..(n - 1) : AtomMatches(p[j], text[i + m])
            /\ ReMatchAt(p, j + 2, text, i + n)
    ELSE IF RepeatEnd(p, j + 1) # 0
    THEN /\ CountFits(p, j + 1)
         /\ i + RepeatCount(p, j + 1) - 1 <= Len(text)
         /\ \A m \in 0..(RepeatCount(p, j + 1) - 1) : AtomMatches(p[j], text[i + m])
         /\ ReMatchAt(p, RepeatEnd(p, j + 1) + 1, text, i + RepeatCount(p, j + 1))
    ELSE i <= Len(text) /\ AtomMatches(p[j], text[i]) /\ ReMatchAt(p, j + 1, text, i + 1)

\* re.search(pattern, text, re.IGNORECASE): "match", "nomatch", or the exception raised
re_search(pattern, text) ==
    IF re_compile(pattern) # "ok" THEN re_compile(pattern)
    ELSE IF pattern[1] = "^"
    THEN (IF ReMatchAt(pattern, 2, text, 1) THEN "match" ELSE "nomatch")
    ELSE IF \E i \in 1..(Len(text) + 1) : ReMatchAt(pattern, 1, text, i) THEN "match"
    ELSE "nomatch"

(***************************************************************************)
(* icon_resolver.py: the matchers                                          *)
(***************************************************************************)
_MAX_PATTERN_LENGTH == 500

IconResult(icon, ring_color, icon_color, alert_color, source) ==
    [icon |-> icon, ring_color |-> ring_color, icon_color |-> icon_color,
     alert_color |-> alert_color, source |-> source]

\* a matcher's return value None
NoResult == IconResult(None, None, None, None, "None")

\* an exception that leaves a matcher instead of a return value
Raised(exception) == IconResult(None, None, None, None, exception)

Sources == {"host", "title_pattern", "title_icon", "process", "session", "fallback"}

\* str(icon): a str is itself, a nested mapping prints as its (non-empty) repr
PyStr(v) == IF v.t = "str" THEN v ELSE Str(<<"{", "repr", "}">>)

\* value.get(key, default)
DictGetOr(d, k, default) == IF DictHas(d, k) THEN DictGet(d, k) ELSE default

\* a or b
PyOr(a, b) == IF Truthy(a) THEN a ELSE b

_extract_host_result(value, cfg) ==
    IF value.t = "str" THEN IconResult(value, None, None, None, "host")
    ELSE IconResult(DictGetOr(value.d, <<"i","c","o","n">>, Str(cfg.fallback_icon)),
                    PyOr(DictGetOrNone(value.d, <<"r","i","n","g","-","c","o","l","o","r">>),
                         DictGetOrNone(value.d, <<"i","n","d","e","x","-","c","o","l","o","r">>)),
                    DictGetOrNone(value.d, <<"i","c","o","n","-","c","o","l","o","r">>),
                    DictGetOrNone(value.d, <<"a","l","e","r","t","-","c","o","l","o","r">>),
                    "host")

\* the hosts key at position i matches the (lowercased) hostname
HostKeyMatches(host_lower, pattern) ==
    lower(pattern) = host_lower \/ fnmatch(host_lower, lower(pattern))

RECURSIVE MatchHostFrom(_, _, _, _)
MatchHostFrom(host_lower, hosts, cfg, i) ==
    IF i > Len(hosts) THEN NoResult
    ELSE IF HostKeyMatches(host_lower, hosts[i].k) THEN _extract_host_result(hosts[i].v, cfg)
    ELSE MatchHostFrom(host_lower, hosts, cfg, i + 1)

\* _match_host looking for an exactly equal key among all keys before trying any glob
_match_host_exact_first(host, hosts, cfg) ==
    IF \E i \in 1..Len(hosts) : lower(hosts[i].k) = lower(host)
    THEN _extract_host_result(
             hosts[CHOOSE i \in 1..Len(hosts) : lower(hosts[i].k) = lower(host)].v, cfg)
    ELSE MatchHostFrom(lower(host), hosts, cfg, 1)

_match_host(host, hosts, cfg) == MatchHostFrom(lower(host), hosts, cfg, 1)

RECURSIVE TitlePatternsFrom(_, _, _, _)
\* the loops of _match_title_patterns at icons entry a and at its title pattern k
TitlePatternsFrom(title, icons, a, k) ==
    IF a > Len(icons) THEN NoResult
    ELSE
      LET value == icons[a].v
          title_patterns == DictGetOrNone(value.d, <<"t","i","t","l","e">>)
          pattern == title_patterns.d[k].k
          icon == title_patterns.d[k].v
          found == re_search(pattern, title)
      IN  IF value.t # "dict" THEN TitlePatternsFrom(title, icons, a + 1, 1)
          ELSE IF ~Truthy(title_patterns) \/ title_patterns.t # "dict"
          THEN TitlePatternsFrom(title, icons, a + 1, 1)
          ELSE IF k > Len(title_patterns.d) THEN TitlePatternsFrom(title, icons, a + 1, 1)
          ELSE IF Len(pattern) > _MAX_PATTERN_LENGTH THEN TitlePatternsFrom(title, icons, a, k + 1)
          ELSE IF found = "match"
          THEN IconResult(PyStr(icon), None,
                          DictGetOrNone(value.d, <<"i","c","o","n","-","c","o","l","o","r">>),
                          None, "title_pattern")
          \* except re.error: continue
          ELSE IF found \in {"nomatch", "re.error"} THEN TitlePatternsFrom(title, icons, a, k + 1)
          ELSE Raised(found)

_match_title_patterns(title, icons, cfg) ==
    IF title = <<>> THEN NoResult ELSE TitlePatternsFrom(title, icons, 1, 1)

\* the characters [A-Za-z0-9._+-] and [A-Za-z0-9] of the two tokenizers
IsTitleTokenChar(c) == IsAlnum(c) \/ c \in {".", "_", "+", "-"}

IsSessionTokenChar(c) == IsAlnum(c)

\* cls is the tokenizer: "title" or "session"
InClass(cls, c) == IF cls = "title" THEN IsTitleTokenChar(c) ELSE IsSessionTokenChar(c)

RECURSIVE Tokens(_, _, _)
\* [t for t in re.split(<runs of characters outside the class>, s) if t], from position i
Tokens(s, i, cls) ==
    IF i > Len(s) THEN <<>>
    ELSE IF ~InClass(cls, s[i]) THEN Tokens(s, i + 1, cls)
    ELSE LET e == IF \A j \in i..Len(s) : InClass(cls, s[j]) THEN Len(s)
                  ELSE (CHOOSE j \in i..Len(s) : ~InClass(cls, s[j])
                                                /\ \A m \in i..(j - 1) : InClass(cls, s[m])) - 1
         IN  <<SubSeq(s, i, e)>> \o Tokens(s, e + 1, cls)

RECURSIVE TitleTokenFrom(_, _, _)
TitleTokenFrom(tokens, title_icons, i) ==
    IF i > Len(tokens) THEN NoResult
    ELSE IF DictHas(title_icons, tokens[i])
    THEN IconResult(DictGet(title_icons, tokens[i]), None, None, None, "title_icon")
    ELSE TitleTokenFrom(tokens, title_icons, i + 1)

RECURSIVE TitleSubstringFrom(_, _, _)
TitleSubstringFrom(title_lower, title_icons, i) ==
    IF i > Len(title_icons) THEN NoResult
    ELSE IF Contains(title_lower, lower(title_icons[i].k))
    THEN IconResult(title_icons[i].v, None, None, None, "title_icon")
    ELSE TitleSubstringFrom(title_lower, title_icons, i + 1)

\* _match_title_icons with the substring scan alone
_match_title_icons_scan_only(title, title_icons, cfg) ==
    IF title = <<>> \/ title_icons = <<>> THEN NoResult
    ELSE TitleSubstringFrom(lower(title), title_icons, 1)

_match_title_icons(title, title_icons, cfg) ==
    LET title_lower == lower(title)
        tokens == Tokens(title_lower, 1, "title")
        by_token == TitleTokenFrom(tokens, title_icons, 1)
    IN  IF title = <<>> \/ title_icons = <<>> THEN NoResult
        ELSE IF by_token # NoResult THEN by_token
        ELSE TitleSubstringFrom(title_lower, title_icons, 1)

RECURSIVE MatchProcessFrom(_, _, _, _)
MatchProcessFrom(process_lower, icons, cfg, i) ==
    IF i > Len(icons) THEN NoResult
    ELSE IF lower(icons[i].k) # process_lower THEN MatchProcessFrom(process_lower, icons, cfg, i + 1)
    ELSE IF icons[i].v.t = "str" THEN IconResult(icons[i].v, None, None, None, "process")
    ELSE IconResult(DictGetOr(icons[i].v.d, <<"i","c","o","n">>, Str(cfg.fallback_icon)), None,
                    DictGetOrNone(icons[i].v.d, <<"i","c","o","n","-","c","o","l","o","r">>),
                    None, "process")

_match_process(process, icons, cfg) ==
    IF process = <<>> THEN NoResult ELSE MatchProcessFrom(lower(process), icons, cfg, 1)

\* the inner loop of _match_session: the first key equal to the token when lowercased
SessionKeyFor(sessions, token) ==
    CHOOSE i \in 1..Len(sessions) :
        lower(sessions[i].k) = token /\ \A j \in 1..(i - 1) : lower(sessions[j].k) # token

RECURSIVE MatchSessionFrom(_, _, _)
MatchSessionFrom(tokens, sessions, i) ==
    IF i > Len(tokens) THEN NoResult
    ELSE IF DictHas(sessions, tokens[i])
    THEN IconResult(DictGet(sessions, tokens[i]), None, None, None, "session")
    ELSE IF \E j \in 1..Len(sessions) : lower(sessions[j].k) = tokens[i]
    THEN IconResult(sessions[SessionKeyFor(sessions, tokens[i])].v, None, None, None, "session")
    ELSE MatchSessionFrom(tokens, sessions, i + 1)

\* _match_session looking up the whole lowercased session name instead of its tokens
_match_session_whole_name(session, sessions, cfg) ==
    IF session = <<>> \/ sessions = <<>> THEN NoResult
    ELSE MatchSessionFrom(<<lower(session)>>, sessions, 1)

_match_session(session, sessions, cfg) ==
    IF session = <<>> \/ sessions = <<>> THEN NoResult
    ELSE MatchSessionFrom(Tokens(lower(session), 1, "session"), sessions, 1)

(***************************************************************************)
(* icon_resolver.py: resolve_icon after get_config                         *)
(***************************************************************************)
\* effective_cmdline: cmdline, or the joined result of get_foreground_cmdline(pane_pid)
EffectiveCmdline(cmdline, has_pane_pid, cmdline_parts) ==
    IF cmdline # None THEN cmdline
    ELSE IF has_pane_pid /\ cmdline_parts # <<>> THEN Str(join(<<" ">>, cmdline_parts))
    ELSE None

\* ssh_host: None unless effective_cmdline is a non-empty str
SshHost(effective_cmdline) ==
    IF Truthy(effective_cmdline) THEN parse_ssh_host(effective_cmdline) ELSE None

\* resolve_icon trying the process tier before the title_icons tier
resolve_icon_process_first(config, process, title, session, effective_cmdline) ==
    LET cfg == config.config
        ssh_host == SshHost(effective_cmdline)
        r1 == IF cfg.prefer_host_icon /\ Truthy(ssh_host)
              THEN _match_host(ssh_host.s, config.hosts, cfg)
              ELSE NoResult
        r2 == _match_title_patterns(title, config.icons, cfg)
        r3 == _match_title_icons(title, config.title_icons, cfg)
        r4 == _match_process(process, config.icons, cfg)
        r5 == _match_session(session, config.sessions, cfg)
    IN  IF r1 # NoResult THEN r1
        ELSE IF r2 # NoResult THEN r2
        ELSE IF r4 # NoResult THEN r4
        ELSE IF r3 # NoResult THEN r3
        ELSE IF r5 # NoResult THEN r5
        ELSE IconResult(Str(cfg.fallback_icon), None, None, None, "fallback")

\* resolve_icon trying the host tier whatever prefer_host_icon says
resolve_icon_host_ungated(config, process, title, session, effective_cmdline) ==
    LET cfg == config.config
        ssh_host == SshHost(effective_cmdline)
        r1 == IF Truthy(ssh_host)
              THEN _match_host(ssh_host.s, config.hosts, cfg)
              ELSE NoResult
        r2 == _match_title_patterns(title, config.icons, cfg)
        r3 == _match_title_icons(title, config.title_icons, cfg)
        r4 == _match_process(process, config.icons, cfg)
        r5 == _match_session(session, config.sessions, cfg)
    IN  IF r1 # NoResult THEN r1
        ELSE IF r2 # NoResult THEN r2
        ELSE IF r3 # NoResult THEN r3
        ELSE IF r4 # NoResult THEN r4
        ELSE IF r5 # NoResult THEN r5
        ELSE IconResult(Str(cfg.fallback_icon), None, None, None, "fallback")

\* the tiers of resolve_icon on the configuration get_config returned
resolve_icon(config, process, title, session, effective_cmdline) ==
    LET cfg == config.config
        ssh_host == SshHost(effective_cmdline)
        r1 == IF cfg.prefer_host_icon /\ Truthy(ssh_host)
              THEN _match_host(ssh_host.s, config.hosts, cfg)
              ELSE NoResult
        r2 == _match_title_patterns(title, config.icons, cfg)
        r3 == _match_title_icons(title, config.title_icons, cfg)
        r4 == _match_process(process, config.icons, cfg)
        r5 == _match_session(session, config.sessions, cfg)
    IN  IF r1 # NoResult THEN r1
        ELSE IF r2 # NoResult THEN r2
        ELSE IF r3 # NoResult THEN r3
        ELSE IF r4 # NoResult THEN r4
        ELSE IF r5 # NoResult THEN r5
        ELSE IconResult(Str(cfg.fallback_icon), None, None, None, "fallback")

(***************************************************************************)
(* The file system, load_config and get_config                             *)
(***************************************************************************)
\* the paths callers pass, and os.path.expanduser on them
Paths == {"~/.config/nerd-icons/config.yml", "/home/u/.config/nerd-icons/config.yml", "/etc/nerd-icons.yml"}

expanduser(path) ==
    IF path = "~/.config/nerd-icons/config.yml" THEN "/home/u/.config/nerd-icons/config.yml" ELSE path

ExpandedPaths == {expanduser(p) : p \in Paths}

\* the latest modification time a file gets
MaxMtime == 2

\* a file: its lines, then pad bytes of comment lines, which every parsing loop skips
File(lines, pad, mtime) == [exists |-> TRUE, lines |-> lines, pad |-> pad, mtime |-> mtime]

NoFile == [exists |-> FALSE, lines |-> <<>>, pad |-> 0, mtime |-> 0]

RECURSIVE TextBytes(_)
\* the bytes of the lines, each with its line terminator
TextBytes(lines) == IF lines = <<>> THEN 0 ELSE Len(lines[1]) + 1 + TextBytes(Tail(lines))

\* os.path.getsize
getsize(file) == TextBytes(file.lines) + file.pad

\* what a call returns: the exception raised ("" when none) and the value returned
Outcome(raised, ret) == [raised |-> raised, ret |-> ret]

\* load_config refusing a file of exactly MAX_CONFIG_SIZE bytes
load_config_ceiling_excluded(fs, path) ==
    LET file == fs[expanduser(path)]
    IN  IF ~file.exists THEN Outcome("FileNotFoundError", <<>>)
        ELSE IF getsize(file) >= MAX_CONFIG_SIZE THEN Outcome("ValueError", <<>>)
        ELSE Outcome("", <<load_config_from_string(file.lines)>>)

\* load_config(path) on the file system fs; ret is <<ParsedConfig>>
load_config(fs, path) ==
    LET file == fs[expanduser(path)]
    IN  IF ~file.exists THEN Outcome("FileNotFoundError", <<>>)
        ELSE IF getsize(file) > MAX_CONFIG_SIZE THEN Outcome("ValueError", <<>>)
        ELSE Outcome("", <<load_config_from_string(file.lines)>>)

\* a failed stat taken for a modification later than any recorded one
CurrentMtimeFailedIsNewest(fs, path) == IF fs[path].exists THEN fs[path].mtime ELSE MaxMtime + 1

\* os.path.getmtime, or 0.0 on OSError
CurrentMtime(fs, path) == IF fs[path].exists THEN fs[path].mtime ELSE 0

\* cache_invalid reloading a file whose modification time has not advanced
CacheInvalidOnEqualMtime(fs, path) ==
    _config_cache = <<>> \/ path # _config_path_cache \/ CurrentMtime(fs, path) >= _config_mtime

\* cache_invalid of get_config; the cache is <<>> for None, else <<ParsedConfig>>
CacheInvalid(fs, path) ==
    _config_cache = <<>> \/ path # _config_path_cache \/ CurrentMtime(fs, path) > _config_mtime

\* get_config(config_path): the new cache triple, whether load_config was called, and the outcome
\* get_config recording the path and the mtime before it loads
get_config_records_first(config_path) ==
    LET path == expanduser(config_path)
        current_mtime == CurrentMtime(files, path)
        loaded == load_config(files, path)
    IN  IF CacheInvalid(files, path)
        THEN [cache |-> IF loaded.raised # "" THEN _config_cache ELSE loaded.ret,
              mtime |-> current_mtime, path |-> path, loads |-> TRUE, out |-> loaded]
        ELSE [cache |-> _config_cache, mtime |-> _config_mtime, path |-> _config_path_cache,
              loads |-> FALSE, out |-> Outcome("", _config_cache)]

get_config(config_path) ==
    LET path == expanduser(config_path)
        current_mtime == CurrentMtime(files, path)
        loaded == load_config(files, path)
    IN  IF CacheInvalid(files, path)
        THEN (IF loaded.raised # ""
              THEN [cache |-> _config_cache, mtime |-> _config_mtime, path |-> _config_path_cache,
                    loads |-> TRUE, out |-> loaded]
              ELSE [cache |-> loaded.ret, mtime |-> current_mtime, path |-> path,
                    loads |-> TRUE, out |-> loaded])
        ELSE [cache |-> _config_cache, mtime |-> _config_mtime, path |-> _config_path_cache,
              loads |-> FALSE, out |-> Outcome("", _config_cache)]

(***************************************************************************)
(* Configuration texts and requests                                        *)
(***************************************************************************)
\*   config:
\*     prefer-host-icon: false
CfgNoHost ==
    <<<<"c","o","n","f","i","g",":">>,
      <<" "," ","p","r","e","f","e","r","-","h","o","s","t","-","i","c","o","n",":"," ","f","a","l","s","e">>>>

\*   config:
\*     fallback-icon: F
CfgFallback ==
    <<<<"c","o","n","f","i","g",":">>,
      <<" "," ","f","a","l","l","b","a","c","k","-","i","c","o","n",":"," ","F">>>>

\*   icons:
\*     vim:
\*       icon: V
\*       icon-color: #abc
\*       title:
\*         ^readme: R
\*     Zsh: Z
IconsBase ==
    <<<<"i","c","o","n","s",":">>,
      <<" "," ","v","i","m",":">>,
      <<" "," "," "," ","i","c","o","n",":"," ","V">>,
      <<" "," "," "," ","i","c","o","n","-","c","o","l","o","r",":"," ","#","a","b","c">>,
      <<" "," "," "," ","t","i","t","l","e",":">>,
      <<" "," "," "," "," "," ","^","r","e","a","d","m","e",":"," ","R">>,
      <<" "," ","Z","s","h",":"," ","Z">>>>

\*   icons:
\*     vim: ""
\*     zsh:
\*       icon-color: #abc
\*       title:
\*         ^readme: ''
IconsEmpty ==
    <<<<"i","c","o","n","s",":">>,
      <<" "," ","v","i","m",":"," ","\"","\"">>,
      <<" "," ","z","s","h",":">>,
      <<" "," "," "," ","i","c","o","n","-","c","o","l","o","r",":"," ","#","a","b","c">>,
      <<" "," "," "," ","t","i","t","l","e",":">>,
      <<" "," "," "," "," "," ","^","r","e","a","d","m","e",":"," ","'","'">>>>

\*   icons:
\*     vim:
\*       title:
\*         (: P
\*         a{99999999999}: O
IconsBadRegex ==
    <<<<"i","c","o","n","s",":">>,
      <<" "," ","v","i","m",":">>,
      <<" "," "," "," ","t","i","t","l","e",":">>,
      <<" "," "," "," "," "," ","(",":"," ","P">>,
      <<" "," "," "," "," "," ","a","{","9","9","9","9","9","9","9","9","9","9","9","}",":"," ","O">>>>

\*   title_icons:
\*     htop: H
\*     me: M
\*   sessions:
\*     alpha: A
\*     Work: W
KwBase ==
    <<<<"t","i","t","l","e","_","i","c","o","n","s",":">>,
      <<" "," ","h","t","o","p",":"," ","H">>,
      <<" "," ","m","e",":"," ","M">>,
      <<"s","e","s","s","i","o","n","s",":">>,
      <<" "," ","a","l","p","h","a",":"," ","A">>,
      <<" "," ","W","o","r","k",":"," ","W">>>>

\*     *.local: L
HostGlob ==
    <<<<" "," ","*",".","l","o","c","a","l",":"," ","L">>>>

\*     Server.Local: S
HostExact ==
    <<<<" "," ","S","e","r","v","e","r",".","L","o","c","a","l",":"," ","S">>>>

\*     DB[!0-9]?:
\*       ring-color: #f00
HostSet ==
    <<<<" "," ","D","B","[","!","0","-","9","]","?",":">>,
      <<" "," "," "," ","r","i","n","g","-","c","o","l","o","r",":"," ","#","f","0","0">>>>

\*   hosts:
HostsHeader ==
    <<<<"h","o","s","t","s",":">>>>

\* at most how many entries a hosts block has
MaxHosts == 2

HostEntries == {HostGlob, HostExact, HostSet}

RECURSIVE Flatten(_)
Flatten(seqs) == IF seqs = <<>> THEN <<>> ELSE seqs[1] \o Flatten(Tail(seqs))

\* the hosts blocks of up to MaxHosts different entries, in every order
HostsBlocks ==
    {<<>>} \cup
    {HostsHeader \o Flatten(es) :
        es \in {e \in UNION {[1..n -> HostEntries] : n \in 1..MaxHosts} :
                   \A i, j \in 1..Len(e) : i # j => e[i] # e[j]}}

\* the configuration files of the resolver runs
\*     alpha: A
SessionsOnly ==
    <<<<"s","e","s","s","i","o","n","s",":">>,
      <<" "," ","a","l","p","h","a",":"," ","A">>>>

ResolveTexts ==
    {IconsBase \o KwBase \o h : h \in HostsBlocks}
    \cup {<<>>, CfgFallback, SessionsOnly,
          CfgNoHost \o IconsBase \o KwBase \o HostsHeader \o HostGlob,
          CfgFallback \o IconsEmpty \o KwBase \o HostsHeader \o HostSet,
          IconsBadRegex \o KwBase \o HostsHeader \o HostGlob}

Processes == {<<>>,
    <<"V","I","M">>,
    <<"z","s","h">>}

Titles == {<<>>,
    <<"R","E","A","D","M","E",".","m","d">>,
    <<"h","t","o","p">>,
    <<"m","e"," ","h","t","o","p">>,
    <<"h","t","o","p","m","e",".","x">>}

SessionNames == {<<>>,
    <<"w","o","r","k","-","2","0","2","4","_","a","l","p","h","a">>}

CmdlineStrings == {<<"s","s","h"," ","u","s","e","r","@","S","e","r","v","e","r",".","l","o","c","a","l">>,
    <<"s","s","h"," ","s","e","r","v","e","r",".","r","e","m","o","t","e">>,
    <<"v","i","m"," ","f","i","l","e",".","t","x","t">>}

\* what get_foreground_cmdline(pane_pid) can return: an argument vector, or [] on any error
ForegroundCmdlines == {<<>>, <<<<"/","u","s","r","/","b","i","n","/","s","s","h">>, <<"d","b","x","1">>>>}

\* the arguments of one resolve_icon call; cmdline_parts is what the /proc lookup returns
\* when the call makes it
Requests ==
    {[process |-> p, title |-> ti, session |-> s, cmdline |-> c, has_pane_pid |-> FALSE,
      cmdline_parts |-> <<>>, config_path |-> "~/.config/nerd-icons/config.yml"] :
        p \in Processes, ti \in Titles, s \in SessionNames,
        c \in {None} \cup {Str(x) : x \in CmdlineStrings}}
    \cup
    {[process |-> p, title |-> ti, session |-> s, cmdline |-> None, has_pane_pid |-> TRUE,
      cmdline_parts |-> parts, config_path |-> "~/.config/nerd-icons/config.yml"] :
        p \in Processes, ti \in Titles, s \in SessionNames, parts \in ForegroundCmdlines}

NoRequest ==
    [process |-> <<>>, title |-> <<>>, session |-> <<>>, cmdline |-> None, has_pane_pid |-> FALSE,
     cmdline_parts |-> <<>>, config_path |-> ""]

(***************************************************************************)
(* The resolver: one process, one request                                  *)
(***************************************************************************)
\* the last call: its arguments, whether it called load_config, what it raised or returned
Last(op, request, path, loads, raised, config, result) ==
    [op |-> op, request |-> request, path |-> path, loads |-> loads, raised |-> raised,
     config |-> config, result |-> result]

NoFiles == [p \in ExpandedPaths |-> NoFile]

\* a process started on one request, with the user's configuration file in place
Init ==
    /\ \E text \in ResolveTexts :
          files = [NoFiles EXCEPT !["/home/u/.config/nerd-icons/config.yml"] = File(text, 0, 1)]
    /\ _config_cache = <<>>
    /\ _config_mtime = 0
    /\ _config_path_cache = ""
    /\ \E r \in Requests : last = Last("start", r, "", FALSE, "", <<>>, NoResult)

\* resolve_icon(process, title, session, cmdline, pane_pid, config_path), get_config included
ResolveIcon(r) ==
    \E g \in {get_config(r.config_path)} :
    \E res \in {IF g.out.raised # "" THEN NoResult
                ELSE resolve_icon(g.out.ret[1], r.process, r.title, r.session,
                                  EffectiveCmdline(r.cmdline, r.has_pane_pid, r.cmdline_parts))} :
        /\ _config_cache' = g.cache
        /\ _config_mtime' = g.mtime
        /\ _config_path_cache' = g.path
        /\ UNCHANGED files
        /\ last' = IF g.out.raised # ""
                   THEN Last("resolve_icon", r, r.config_path, g.loads, g.out.raised, <<>>, NoResult)
                   ELSE IF res.source \notin Sources
                   THEN Last("resolve_icon", r, r.config_path, g.loads, res.source, g.out.ret, NoResult)
                   ELSE Last("resolve_icon", r, r.config_path, g.loads, "", g.out.ret, res)

\* main() of icon_resolver.py: one resolve_icon call on the arguments the process was started with
Main == last.op = "start" /\ ResolveIcon(last.request)

Next == Main

Spec == Init /\ [][Next]_vars

(***************************************************************************)
(* The configuration cache: get_config and load_config calls of one        *)
(* process, interleaved with changes of the files                          *)
(***************************************************************************)
\*   sessions:
CacheTexts == {CfgFallback, SessionsOnly}

\* the files written: either text at any time, and CfgFallback padded to the size
\* ceiling and to one byte more
WrittenFiles ==
    {File(text, 0, m) : text \in CacheTexts, m \in 1..MaxMtime}
    \cup {File(CfgFallback, MAX_CONFIG_SIZE - TextBytes(CfgFallback) + over, 1) : over \in {0, 1}}

InitCache ==
    /\ files = NoFiles
    /\ _config_cache = <<>>
    /\ _config_mtime = 0
    /\ _config_path_cache = ""
    /\ last = Last("start", NoRequest, "", FALSE, "", <<>>, NoResult)

\* the environment writes, replaces or touches a file
WriteFile(path, file) ==
    /\ files[path] # file
    /\ files' = [files EXCEPT ![path] = file]
    /\ last' = Last("env", NoRequest, "", FALSE, "", <<>>, NoResult)
    /\ UNCHANGED <<_config_cache, _config_mtime, _config_path_cache>>

\* the environment removes a file
DeleteFile(path) ==
    /\ files[path].exists
    /\ files' = [files EXCEPT ![path] = NoFile]
    /\ last' = Last("env", NoRequest, "", FALSE, "", <<>>, NoResult)
    /\ UNCHANGED <<_config_cache, _config_mtime, _config_path_cache>>

\* a call get_config(config_path)
GetConfig(config_path) ==
    \E g \in {get_config(config_path)} :
        /\ _config_cache' = g.cache
        /\ _config_mtime' = g.mtime
        /\ _config_path_cache' = g.path
        /\ UNCHANGED files
        /\ last' = Last("get_config", NoRequest, config_path, g.loads, g.out.raised, g.out.ret, NoResult)

\* a call load_config(path)
LoadConfig(path) ==
    \E loaded \in {load_config(files, path)} :
        /\ last' = Last("load_config", NoRequest, path, TRUE, loaded.raised, loaded.ret, NoResult)
        /\ UNCHANGED <<files, _config_cache, _config_mtime, _config_path_cache>>

NextCache ==
    \/ \E path \in ExpandedPaths, file \in WrittenFiles : WriteFile(path, file)
    \/ \E path \in ExpandedPaths : DeleteFile(path)
    \/ \E config_path \in Paths : GetConfig(config_path)
    \/ \E path \in Paths : LoadConfig(path)

SpecCache == InitCache /\ [][NextCache]_vars

(***************************************************************************)
(* The parser: one configuration text, loaded once                         *)
(***************************************************************************)
\* at most how many lines follow the label of the block
MaxLines == 3

\* the lines of a block: entries of one key, of a key differing in case, a detailed
\* entry and its key, lines without a colon, a section label indented and at top level
BlockLines ==
    {<<" "," ","v","i","m",":"," ","V">>,
     <<" "," ","v","i","m",":"," ","X">>,
     <<" "," ","V","i","m",":"," ","W">>,
     <<" "," ","v","i","m",":">>,
     <<" "," "," "," ","i","c","o","n",":"," ","Z">>,
     <<" "," ","g","a","r","b","a","g","e">>,
     <<" "," "," "," ","g","a","r","b","a","g","e">>,
     <<" "," ","s","e","s","s","i","o","n","s",":">>,
     <<"s","e","s","s","i","o","n","s",":">>}

\* a regex pattern of n characters
Pattern(n) == [i \in 1..n |-> "a"]

\*   icons:
\*     vim:
\*       title:
\*         <pattern>: X
TitlePatternText(pattern) ==
    <<<<"i","c","o","n","s",":">>,
      <<" "," ","v","i","m",":">>,
      <<" "," "," "," ","t","i","t","l","e",":">>,
      <<" "," "," "," "," "," ">> \o pattern \o <<":"," ","X">>>>

\* the pattern lengths around the limit
PatternLengths == {MAX_REGEX_LENGTH - 1, MAX_REGEX_LENGTH, MAX_REGEX_LENGTH + 1}

ParseTexts ==
    {<<<<"i","c","o","n","s",":">>>> \o ls : ls \in UNION {[1..n -> BlockLines] : n \in 0..MaxLines}}
    \cup {TitlePatternText(Pattern(n)) : n \in PatternLengths}

InitParse ==
    /\ \E text \in ParseTexts :
          files = [NoFiles EXCEPT !["/home/u/.config/nerd-icons/config.yml"] = File(text, 0, 1)]
    /\ _config_cache = <<>>
    /\ _config_mtime = 0
    /\ _config_path_cache = ""
    /\ last = Last("start", NoRequest, "", FALSE, "", <<>>, NoResult)

\* the text is loaded once
ParseOnce == last.op = "start" /\ LoadConfig("~/.config/nerd-icons/config.yml")

NextParse == ParseOnce

SpecParse == InitParse /\ [][NextParse]_vars

(***************************************************************************)
(* The claims                                                              *)
(***************************************************************************)
\* the resolve_icon call of the run has returned a result
Returned == last.op = "resolve_icon" /\ last.raised = ""

\* the configuration the last call got
Cfg == last.config[1]

\* the hostname resolve_icon extracts for the request of the run: None or a str
RequestHost ==
    SshHost(EffectiveCmdline(last.request.cmdline, last.request.has_pane_pid,
                             last.request.cmdline_parts))

\* the hosts key equals the hostname case-insensitively or glob-matches it
HostKeyFits(key) ==
    lower(key) = lower(RequestHost.s) \/ fnmatch(lower(RequestHost.s), lower(key))

\* tier 1: the host tier is enabled, a hostname was extracted, some hosts key fits
HostTierHolds ==
    /\ Cfg.config.prefer_host_icon
    /\ Truthy(RequestHost)
    /\ \E i \in 1..Len(Cfg.hosts) : HostKeyFits(Cfg.hosts[i].k)

\* tier 2: some detailed icons entry has a title pattern of at most 500 characters
\* that the title matches
TitlePatternTierHolds ==
    /\ last.request.title # <<>>
    /\ \E a \in 1..Len(Cfg.icons) :
          /\ Cfg.icons[a].v.t = "dict"
          /\ DictHas(Cfg.icons[a].v.d, <<"t","i","t","l","e">>)
          /\ DictGet(Cfg.icons[a].v.d, <<"t","i","t","l","e">>).t = "dict"
          /\ \E k \in 1..Len(DictGet(Cfg.icons[a].v.d, <<"t","i","t","l","e">>).d) :
                LET pattern == DictGet(Cfg.icons[a].v.d, <<"t","i","t","l","e">>).d[k].k
                IN  Len(pattern) <= 500 /\ re_search(pattern, last.request.title) = "match"

\* tier 3: some title_icons keyword occurs in the title, case-insensitively
TitleIconTierHolds ==
    /\ last.request.title # <<>>
    /\ \E i \in 1..Len(Cfg.title_icons) :
          Contains(lower(last.request.title), lower(Cfg.title_icons[i].k))

\* tier 4: some icons key equals the process name, case-insensitively
ProcessTierHolds ==
    /\ last.request.process # <<>>
    /\ \E i \in 1..Len(Cfg.icons) : lower(Cfg.icons[i].k) = lower(last.request.process)

\* the maximal runs of letters and digits of s
AlnumRuns(s) ==
    {SubSeq(s, ab[1], ab[2]) :
        ab \in {x \in (1..Len(s)) \X (1..Len(s)) :
                   /\ x[1] <= x[2]
                   /\ \A i \in x[1]..x[2] : IsAlnum(s[i])
                   /\ (x[1] = 1 \/ ~IsAlnum(s[x[1] - 1]))
                   /\ (x[2] = Len(s) \/ ~IsAlnum(s[x[2] + 1]))}}

\* tier 5: some sessions key equals, case-insensitively, a token of the session name
SessionTierHolds ==
    /\ last.request.session # <<>>
    /\ \E i \in 1..Len(Cfg.sessions) :
          lower(Cfg.sessions[i].k) \in AlnumRuns(lower(last.request.session))

\* the first tier, in the fixed order, whose match condition holds
FirstTier ==
    IF HostTierHolds THEN "host"
    ELSE IF TitlePatternTierHolds THEN "title_pattern"
    ELSE IF TitleIconTierHolds THEN "title_icon"
    ELSE IF ProcessTierHolds THEN "process"
    ELSE IF SessionTierHolds THEN "session"
    ELSE "fallback"

\* C1: the result resolve_icon returns has as its source the first tier, in the order
\* host, title_pattern, title_icon, process, session, fallback, whose match condition
\* holds; no later tier's entry is returned when an earlier tier matches.
C1_FirstMatchingTier == Returned => last.result.source = FirstTier

\* C1 witness: the title_icons tier has answered a request whose process and session
\* match as well
C1_Witness ==
    /\ Returned
    /\ last.result.source = "title_icon"
    /\ ProcessTierHolds
    /\ SessionTierHolds

\* C2: resolve_icon never fails: every call on a loaded configuration returns without
\* raising, and when none of the tiers 1 to 5 matches the result is exactly the fallback
\* icon with source fallback and no colour.
C2_NeverFails ==
    last.op = "resolve_icon" =>
        /\ last.raised = ""
        /\ FirstTier = "fallback" =>
              last.result = IconResult(Str(Cfg.config.fallback_icon), None, None, None, "fallback")

\* the file load_config read in the last call
LoadedFile == files[expanduser(last.path)]

\* C3: parsing an icons entry with a title sub-block accepts a pattern of exactly 500
\* characters and fails with YamlParseError when the pattern has 501 characters or more.
C3_PatternCeiling ==
    last.op = "load_config" =>
        \A n \in PatternLengths :
            LoadedFile.lines = TitlePatternText(Pattern(n)) =>
                IF n <= 500
                THEN /\ last.raised = ""
                     /\ last.config[1].icons =
                            <<[k |-> <<"v","i","m">>,
                               v |-> Dict(<<[k |-> <<"t","i","t","l","e">>,
                                             v |-> Dict(<<[k |-> Pattern(n),
                                                           v |-> Str(<<"X">>)]>>)]>>)]>>
                ELSE last.raised = "YamlParseError"

\* C4: every result of resolve_icon, from any tier, has a non-empty icon string.
C4_IconNonEmpty ==
    Returned => last.result.icon.t = "str" /\ last.result.icon.s # <<>>

\* C5: a get_config call re-parses the file exactly when the cache is empty, the
\* requested path differs from the cached path, or the file's modification time is
\* greater than the recorded one; otherwise it returns the cached configuration and
\* leaves the cache alone; after a reload the cached path and the recorded time are
\* those of the call, and the cache holds what the file parses to.
C5_ReloadConditions ==
    [][last'.op = "get_config" =>
          LET path == expanduser(last'.path)
              stale == \/ _config_cache = <<>>
                       \/ path # _config_path_cache
                       \/ (files[path].exists /\ files[path].mtime > _config_mtime)
          IN  /\ last'.loads <=> stale
              /\ ~stale =>
                    /\ last'.raised = ""
                    /\ last'.config = _config_cache
                    /\ UNCHANGED <<_config_cache, _config_mtime, _config_path_cache>>
              /\ (stale /\ last'.raised = "") =>
                    /\ _config_cache' = <<load_config_from_string(files[path].lines)>>
                    /\ last'.config = _config_cache'
                    /\ _config_path_cache' = path
                    /\ _config_mtime' = files[path].mtime]_vars

\* C5 witness: a call has been answered from the cache, the file being no newer than
\* recorded
C5_Witness ==
    /\ last.op = "get_config"
    /\ ~last.loads
    /\ LoadedFile.exists
    /\ LoadedFile.mtime = _config_mtime
    /\ last.config = _config_cache

\* C6: when the stat of the file fails during get_config, the call returns the cached
\* configuration unchanged if one is cached for the same path, and raises
\* FileNotFoundError if none is.
C6_StatFailure ==
    [][(last'.op = "get_config" /\ ~files[expanduser(last'.path)].exists) =>
          IF _config_cache # <<>> /\ _config_path_cache = expanduser(last'.path)
          THEN /\ last'.raised = ""
               /\ last'.config = _config_cache
               /\ UNCHANGED <<_config_cache, _config_mtime, _config_path_cache>>
          ELSE last'.raised = "FileNotFoundError"]_vars

\* C6 witness: a call on a missing file has returned the cached configuration
C6_Witness ==
    /\ last.op = "get_config"
    /\ ~LoadedFile.exists
    /\ last.raised = ""
    /\ last.config # <<>>
    /\ last.config = _config_cache

\* C7: load_config loads and parses a file of up to 1,048,576 bytes, raises ValueError
\* with no configuration for a larger one, and raises FileNotFoundError with no
\* configuration for a path it cannot access.
C7_SizeCeiling ==
    last.op = "load_config" =>
        IF ~LoadedFile.exists
        THEN last.raised = "FileNotFoundError" /\ last.config = <<>>
        ELSE IF getsize(LoadedFile) <= 1048576
        THEN last.raised = "" /\ last.config = <<load_config_from_string(LoadedFile.lines)>>
        ELSE last.raised = "ValueError" /\ last.config = <<>>

\* C7 witness: a file of exactly 1,048,576 bytes has been loaded
C7_Witness ==
    /\ last.op = "load_config"
    /\ LoadedFile.exists
    /\ getsize(LoadedFile) = 1048576
    /\ last.raised = ""
    /\ last.config # <<>>

\* a line that is neither blank nor a comment
ContentLine(line) == strip(line) # <<>> /\ strip(line)[1] # "#"

\* a content line without a colon
ColonlessLine(line) == ContentLine(line) /\ ~Contains(line, <<":">>)

\* a key: value line
EntryLine(line) ==
    /\ Contains(line, <<":">>)
    /\ strip(SplitHead(strip(line), <<":">>)) # <<>>
    /\ strip(SplitTail(strip(line), <<":">>)) # <<>>

\* the text without its line i
WithoutLine(text, i) == SubSeq(text, 1, i - 1) \o SubSeq(text, i + 1, Len(text))

\* line i is indented like the next content line, or no content line follows it
IndentedLikeNext(text, i) ==
    \A j \in (i + 1)..Len(text) :
        (ContentLine(text[j]) /\ \A m \in (i + 1)..(j - 1) : ~ContentLine(text[m]))
            => _get_indent_level(text[j]) = _get_indent_level(text[i])

\* C8 as stated: for a block holding a key: value entry, parsing does not raise and
\* gives what parsing gives with any one colon-less line of the block removed.
C8_ColonlessLineRemovable ==
    last.op = "load_config" =>
        \A i \in 2..Len(LoadedFile.lines) :
            (/\ ColonlessLine(LoadedFile.lines[i])
             /\ \E j \in 2..Len(LoadedFile.lines) : EntryLine(LoadedFile.lines[j]))
                => /\ last.raised = ""
                   /\ last.config = <<load_config_from_string(WithoutLine(LoadedFile.lines, i))>>

\* C8 amended: for a block holding a key: value entry, parsing does not raise and gives
\* what parsing gives with a colon-less line removed, provided that line is indented
\* like the content line that follows it (or none follows).
C8_AlignedColonlessLineRemovable ==
    last.op = "load_config" =>
        \A i \in 2..Len(LoadedFile.lines) :
            (/\ ColonlessLine(LoadedFile.lines[i])
             /\ IndentedLikeNext(LoadedFile.lines, i)
             /\ \E j \in 2..Len(LoadedFile.lines) : EntryLine(LoadedFile.lines[j]))
                => /\ last.raised = ""
                   /\ last.config = <<load_config_from_string(WithoutLine(LoadedFile.lines, i))>>

\* C8 witness: a block with a colon-less line before a valid entry has been parsed and
\* the entry is in the result
C8_Witness ==
    /\ last.op = "load_config"
    /\ LoadedFile.lines = <<<<"i","c","o","n","s",":">>,
                        <<" "," ","g","a","r","b","a","g","e">>,
                        <<" "," ","v","i","m",":"," ","V">>>>
    /\ last.raised = ""
    /\ last.config[1].icons = <<[k |-> <<"v","i","m">>, v |-> Str(<<"V">>)]>>

\* the request of the run
Request == last.request

\* C9: a result with source host is produced only when prefer_host_icon is true, a
\* non-empty hostname was extracted and some hosts key matches it; when all three hold
\* the host entry wins whatever the title matches; when prefer_host_icon is false or no
\* hostname is detected the result is the one an empty hosts mapping gives.
C9_HostTierGated ==
    Returned =>
        /\ last.result.source = "host" <=> HostTierHolds
        /\ (~Cfg.config.prefer_host_icon \/ ~Truthy(RequestHost)) =>
              last.result =
                  resolve_icon([Cfg EXCEPT !.hosts = <<>>], Request.process, Request.title,
                               Request.session,
                               EffectiveCmdline(Request.cmdline, Request.has_pane_pid,
                                                Request.cmdline_parts))

\* C9 witness: the host tier has answered a request whose title matches a title_icons
\* keyword
C9_Witness ==
    /\ Returned
    /\ last.result.source = "host"
    /\ Cfg.config.prefer_host_icon
    /\ TitleIconTierHolds

\* the position of the first hosts key, in insertion order, that fits the hostname
FirstFittingHost ==
    CHOOSE i \in 1..Len(Cfg.hosts) :
        HostKeyFits(Cfg.hosts[i].k) /\ \A j \in 1..(i - 1) : ~HostKeyFits(Cfg.hosts[j].k)

\* C10: with the host tier enabled and a hostname extracted, the result is the entry of
\* the first hosts key, in insertion order, that equals the hostname case-insensitively
\* or glob-matches it, and no host result when no key does; "*.local" matches
\* "server.local", also ahead of a later equal key, and not "server.remote".
C10_FirstFittingHostKey ==
    (Returned /\ Cfg.config.prefer_host_icon /\ Truthy(RequestHost)) =>
        /\ IF \E i \in 1..Len(Cfg.hosts) : HostKeyFits(Cfg.hosts[i].k)
           THEN last.result = _extract_host_result(Cfg.hosts[FirstFittingHost].v, Cfg.config)
           ELSE last.result.source # "host"
        /\ (/\ RequestHost.s = <<"s","e","r","v","e","r",".","l","o","c","a","l">>
            /\ Cfg.hosts # <<>>
            /\ Cfg.hosts[1].k = <<"*",".","l","o","c","a","l">>)
              => last.result = _extract_host_result(Cfg.hosts[1].v, Cfg.config)
        /\ (/\ RequestHost.s = <<"s","e","r","v","e","r",".","r","e","m","o","t","e">>
            /\ \A i \in 1..Len(Cfg.hosts) : Cfg.hosts[i].k = <<"*",".","l","o","c","a","l">>)
              => last.result.source # "host"

\* C10 witness: the glob key "*.local" has answered for a hostname that a later key
\* equals
C10_Witness ==
    /\ Returned
    /\ last.result.source = "host"
    /\ Len(Cfg.hosts) >= 2
    /\ Cfg.hosts[1].k = <<"*",".","l","o","c","a","l">>
    /\ lower(Cfg.hosts[2].k) = RequestHost.s
    /\ last.result.icon = Cfg.hosts[1].v

(***************************************************************************)
(* The SSH command-line parser: one argument vector, parsed as it is and   *)
(* as resolve_icon hands it over                                           *)
(***************************************************************************)
\* at most how many arguments follow the program name
MaxArgs == 3

\* argument 0
Programs == {<<"s","s","h">>, <<"/","u","s","r","/","b","i","n","/","m","o","s","h","-","c","l","i","e","n","t">>, <<"v","i","m">>}

\* the arguments: options taking a value, alone and with the value glued on, a flag,
\* the end of the options, a target, an argument with spaces in it
Arguments == {<<"-","p">>, <<"-","p","2","2">>, <<"-","v">>, <<"-","-">>, <<"U","s","e","r","@","H","o","s","t",":","2","2">>, <<"a"," ","b">>}

\* the targets normalized
Targets ==
    {<<"u","s","e","r","@","[","2","0","0","1",":","d","b","8",":",":","1","]",":","2","2">>, <<"E","x","a","m","p","l","e",".","C","O","M">>, <<"h","o","s","t",":","2","2">>, <<"[",":",":","1">>, <<"a","@","b","@","C",":","1">>,
     <<" ","H","o","s","t"," ">>, <<"u","@"," ","[",":",":","1","]",":","2","2">>,
     <<"u","s","e","r","@">>, <<":","2","2">>, <<"[","]">>}

\* the argument vectors: none, a program with up to MaxArgs arguments, a target alone
ArgumentVectors ==
    {<<>>}
    \cup {<<p>> \o as : p \in Programs, as \in UNION {[1..n -> Arguments] : n \in 0..MaxArgs}}
    \cup {<<<<"s","s","h">>, target>> : target \in Targets}
    \cup {<<<<"s","s","h">>, <<"-","i">>, <<"~","/",".","s","s","h","/","k","e","y">>, <<"-","p">>, <<"2","2","2","2">>, <<"s","e","r","v","e","r",".","l","o","c","a","l">>>>,
          <<<<"v","i","m">>, <<"f","i","l","e",".","t","x","t">>>>,
          <<<<"m","o","s","h">>, <<"u","s","e","r","@","1","0",".","0",".","0",".","1">>>>,
          <<<<"s","s","h">>, <<"-","o">>, <<"P","r","o","x","y","C","o","m","m","a","n","d","=","n","c"," ","a"," ","b">>, <<"h","o","s","t">>>>}

InitSsh ==
    /\ files = NoFiles
    /\ _config_cache = <<>>
    /\ _config_mtime = 0
    /\ _config_path_cache = ""
    /\ \E argv \in ArgumentVectors :
          last = Last("start", [NoRequest EXCEPT !.has_pane_pid = TRUE, !.cmdline_parts = argv],
                      "", FALSE, "", <<>>, None)

\* parse_ssh_host(cmdline) on the argument vector, as main() of ssh_parser.py calls it
\* with --pane-pid
ParseSshHost ==
    /\ last.op = "start"
    /\ last' = [last EXCEPT !.op = "parse_ssh_host",
                            !.result = parse_ssh_host(List(last.request.cmdline_parts))]
    /\ UNCHANGED <<files, _config_cache, _config_mtime, _config_path_cache>>

\* ssh_host of resolve_icon when get_foreground_cmdline returned the argument vector
LookupSshHost ==
    /\ last.op = "start"
    /\ last' = [last EXCEPT !.op = "ssh_host",
                            !.result = SshHost(EffectiveCmdline(None, TRUE,
                                                                last.request.cmdline_parts))]
    /\ UNCHANGED <<files, _config_cache, _config_mtime, _config_path_cache>>

NextSsh == ParseSshHost \/ LookupSshHost

SpecSsh == InitSsh /\ [][NextSsh]_vars

\* the single-letter options that take a value
ValueOptions ==
    {<<"-", c>> : c \in {"b", "c", "D", "E", "F", "I", "i", "J", "L", "l", "m", "O", "o",
                         "p", "Q", "R", "S", "W", "w", "B"}}

RECURSIVE PositionalTarget(_)
\* the first positional argument of args as a one-element sequence, <<>> when there is
\* none: "--" makes the next argument the target, a value option consumes itself and the
\* next token, any other token starting with "-" is skipped alone
PositionalTarget(args) ==
    IF args = <<>> THEN <<>>
    ELSE IF args[1] = <<"-", "-">> THEN (IF Len(args) >= 2 THEN <<args[2]>> ELSE <<>>)
    ELSE IF args[1] \in ValueOptions THEN PositionalTarget(SubSeq(args, 3, Len(args)))
    ELSE IF args[1][1] = "-" THEN PositionalTarget(Tail(args))
    ELSE <<args[1]>>

\* the arguments parse_ssh_host worked on in the last call: the vector itself, or the
\* words of the joined command line
ParsedArguments ==
    IF last.op = "parse_ssh_host" THEN last.request.cmdline_parts
    ELSE split(join(<<" ">>, last.request.cmdline_parts))

\* C11: parse_ssh_host returns absent unless the basename of argument 0 is ssh, slogin,
\* mosh or mosh-client; otherwise the result is the normalized first positional argument
\* of the remaining arguments (a value-taking option consumes itself and the next token,
\* the same option with its value glued on and any other "-" token only itself, "--"
\* makes the next argument the target), and absent when there is none.
C11_FirstPositionalTarget ==
    last.op \in {"parse_ssh_host", "ssh_host"} =>
        /\ IF \/ ParsedArguments = <<>>
              \/ basename(ParsedArguments[1]) \notin
                     {<<"s","s","h">>, <<"s","l","o","g","i","n">>, <<"m","o","s","h">>, <<"m","o","s","h","-","c","l","i","e","n","t">>}
              \/ PositionalTarget(Tail(ParsedArguments)) = <<>>
           THEN last.result = None
           ELSE last.result = Str(_normalize_hostname(PositionalTarget(Tail(ParsedArguments))[1]))
        /\ ParsedArguments = <<<<"s","s","h">>, <<"-","i">>, <<"~","/",".","s","s","h","/","k","e","y">>, <<"-","p">>, <<"2","2","2","2">>, <<"s","e","r","v","e","r",".","l","o","c","a","l">>>>
              => last.result = Str(<<"s","e","r","v","e","r",".","l","o","c","a","l">>)
        /\ ParsedArguments = <<<<"v","i","m">>, <<"f","i","l","e",".","t","x","t">>>> => last.result = None
        /\ ParsedArguments = <<<<"m","o","s","h">>, <<"u","s","e","r","@","1","0",".","0",".","0",".","1">>>> => last.result = Str(<<"1","0",".","0",".","0",".","1">>)

\* C11 witness: the command line ssh -i ~/.ssh/key -p 2222 server.local has been parsed
\* to server.local
C11_Witness ==
    /\ last.op = "ssh_host"
    /\ last.request.cmdline_parts =
           <<<<"s","s","h">>, <<"-","i">>, <<"~","/",".","s","s","h","/","k","e","y">>, <<"-","p">>, <<"2","2","2","2">>, <<"s","e","r","v","e","r",".","l","o","c","a","l">>>>
    /\ last.result = Str(<<"s","e","r","v","e","r",".","l","o","c","a","l">>)

\* the target specification without everything up to and including its first "@"
AfterFirstAt(target) ==
    IF \E i \in 1..Len(target) : target[i] = "@"
    THEN SubSeq(target, 1 + (CHOOSE i \in 1..Len(target) :
                                 target[i] = "@" /\ \A j \in 1..(i - 1) : target[j] # "@"),
                Len(target))
    ELSE target

\* where c occurs first in s, Len(s) + 1 when it does not
FirstOccurrence(s, c) ==
    IF \E i \in 1..Len(s) : s[i] = c
    THEN CHOOSE i \in 1..Len(s) : s[i] = c /\ \A j \in 1..(i - 1) : s[j] # c
    ELSE Len(s) + 1

\* a remainder starting with "[" keeps the text between the bracket and the first "]"
\* (all after the "[" when there is no "]"), any other the text before the first ":";
\* the result is lowercased
HostOfRemainder(rest) ==
    lower(IF rest # <<>> /\ rest[1] = "["
          THEN SubSeq(rest, 2, FirstOccurrence(rest, "]") - 1)
          ELSE SubSeq(rest, 1, FirstOccurrence(rest, ":") - 1))

\* the last call reached a target specification
TargetReached ==
    /\ last.op \in {"parse_ssh_host", "ssh_host"}
    /\ ParsedArguments # <<>>
    /\ basename(ParsedArguments[1]) \in {<<"s","s","h">>, <<"s","l","o","g","i","n">>, <<"m","o","s","h">>, <<"m","o","s","h","-","c","l","i","e","n","t">>}
    /\ PositionalTarget(Tail(ParsedArguments)) # <<>>

TargetSpecification == PositionalTarget(Tail(ParsedArguments))[1]

\* C12 as stated: the normalized host is the lowercased bracket content or text before
\* the first ":" of what follows the first "@" of the target specification.
C12_NormalizationAsStated ==
    TargetReached => last.result = Str(HostOfRemainder(AfterFirstAt(TargetSpecification)))

\* C12: normalization removes everything up to and including the first "@", trims the
\* whitespace around the remainder, then keeps the text between a leading "[" and the
\* first "]" (all after the "[" without a "]"), otherwise the text before the first ":",
\* and lowercases the result.
C12_NormalizationTrimmed ==
    TargetReached =>
        /\ last.result = Str(HostOfRemainder(strip(AfterFirstAt(TargetSpecification))))
        /\ TargetSpecification = <<"u","s","e","r","@","[","2","0","0","1",":","d","b","8",":",":","1","]",":","2","2">> => last.result = Str(<<"2","0","0","1",":","d","b","8",":",":","1">>)
        /\ TargetSpecification = <<"E","x","a","m","p","l","e",".","C","O","M">> => last.result = Str(<<"e","x","a","m","p","l","e",".","c","o","m">>)
        /\ TargetSpecification = <<"h","o","s","t",":","2","2">> => last.result = Str(<<"h","o","s","t">>)

\* C12 witness: a bracketed target with blanks after the "@" has been normalized
C12_Witness ==
    /\ TargetReached
    /\ TargetSpecification = <<"u","@"," ","[",":",":","1","]",":","2","2">>
    /\ last.result = Str(<<":",":","1">>)

\* C20: the hostname resolve_icon derives from a looked-up argument vector, joined with
\* single spaces and split again, is the hostname parse_ssh_host returns for the vector
\* itself, also when arguments contain spaces.
C20_LookupParsesTheVector ==
    last.op = "ssh_host" => last.result = parse_ssh_host(List(last.request.cmdline_parts))

\* the maximal runs of s made of letters, digits and the characters of extra, as pairs
\* of their first and last position
RunSpans(s, extra) ==
    {x \in (1..Len(s)) \X (1..Len(s)) :
        /\ x[1] <= x[2]
        /\ \A i \in x[1]..x[2] : IsAlnum(s[i]) \/ s[i] \in extra
        /\ (x[1] = 1 \/ ~(IsAlnum(s[x[1] - 1]) \/ s[x[1] - 1] \in extra))
        /\ (x[2] = Len(s) \/ ~(IsAlnum(s[x[2] + 1]) \/ s[x[2] + 1] \in extra))}

\* the tokens of s in their order: s split on the runs of other characters
RunTokens(s, extra) ==
    [n \in 1..Cardinality(RunSpans(s, extra)) |->
        LET x == CHOOSE y \in RunSpans(s, extra) :
                     Cardinality({z \in RunSpans(s, extra) : z[1] < y[1]}) = n - 1
        IN  SubSeq(s, x[1], x[2])]

\* no tier before the session tier matches
NoTierBeforeSession ==
    ~HostTierHolds /\ ~TitlePatternTierHolds /\ ~TitleIconTierHolds /\ ~ProcessTierHolds

\* the session work-2024_alpha was resolved on a configuration with the sessions key
\* alpha and no earlier tier matched
AlphaSessionCase ==
    /\ Returned
    /\ Request.session = <<"w","o","r","k","-","2","0","2","4","_","a","l","p","h","a">>
    /\ NoTierBeforeSession
    /\ DictHas(Cfg.sessions, <<"a","l","p","h","a">>)

\* C13 as stated: the session name work-2024_alpha gives the tokens work, 2024, alpha,
\* and with a sessions key alpha the result is sessions[alpha] with source session
\* regardless of the other tokens.
C13_AlphaWinsRegardless ==
    AlphaSessionCase =>
        /\ RunTokens(lower(Request.session), {}) = <<<<"w","o","r","k">>, <<"2","0","2","4">>, <<"a","l","p","h","a">>>>
        /\ last.result.icon = DictGet(Cfg.sessions, <<"a","l","p","h","a">>)
        /\ last.result.source = "session"

\* C13: when no earlier tier matches, the session tier lowercases the session name and
\* splits it on runs of non-alphanumeric characters (work-2024_alpha gives work, 2024,
\* alpha); with a sessions key alpha, and no sessions key equal case-insensitively to an
\* earlier token, the result is sessions[alpha] with source session.
C13_AlphaWinsUnlessEarlierToken ==
    AlphaSessionCase =>
        /\ RunTokens(lower(Request.session), {}) = <<<<"w","o","r","k">>, <<"2","0","2","4">>, <<"a","l","p","h","a">>>>
        /\ last.result.source = "session"
        /\ (\A i \in 1..Len(Cfg.sessions) : lower(Cfg.sessions[i].k) \notin {<<"w","o","r","k">>, <<"2","0","2","4">>})
              => last.result.icon = DictGet(Cfg.sessions, <<"a","l","p","h","a">>)

\* C13 witness: sessions[alpha] was returned for work-2024_alpha
C13_Witness ==
    /\ AlphaSessionCase
    /\ \A i \in 1..Len(Cfg.sessions) : lower(Cfg.sessions[i].k) \notin {<<"w","o","r","k">>, <<"2","0","2","4">>}
    /\ last.result.source = "session"
    /\ last.result.icon = Str(<<"A">>)

\* the positions of the title tokens that are title_icons keys
KeyTokenSpans ==
    {x \in RunSpans(lower(Request.title), {".", "_", "+", "-"}) :
        DictHas(Cfg.title_icons, SubSeq(lower(Request.title), x[1], x[2]))}

\* the positions of the title_icons keys occurring in the title case-insensitively
SubstringKeys ==
    {i \in 1..Len(Cfg.title_icons) :
        Contains(lower(Request.title), lower(Cfg.title_icons[i].k))}

\* C16: in the title-icon tier the tokens of the lowercased title (split on runs of
\* characters outside [A-Za-z0-9._+-]) are tried first in token order and the first token
\* that is a title_icons key wins, even when a key earlier in the mapping is a substring
\* of the title; only when no token is a key, each key is tried in mapping order as a
\* case-insensitive substring of the title and the first hit wins.
C16_TokensBeforeSubstrings ==
    (Returned /\ last.result.source = "title_icon") =>
        IF KeyTokenSpans # {}
        THEN LET x == CHOOSE y \in KeyTokenSpans : \A z \in KeyTokenSpans : y[1] <= z[1]
             IN  last.result.icon = DictGet(Cfg.title_icons, SubSeq(lower(Request.title), x[1], x[2]))
        ELSE /\ SubstringKeys # {}
             /\ LET i == CHOOSE j \in SubstringKeys : \A k \in SubstringKeys : j <= k
                IN  last.result.icon = Cfg.title_icons[i].v

\* C16 witness: the token me won although the key htop, earlier in the mapping, occurs
\* in the title
C16_Witness ==
    /\ Returned
    /\ last.result.source = "title_icon"
    /\ Request.title = <<"m","e"," ","h","t","o","p">>
    /\ Cfg.title_icons[1].k = <<"h","t","o","p">>
    /\ 1 \in SubstringKeys
    /\ last.result.icon = DictGet(Cfg.title_icons, <<"m","e">>)
    /\ last.result.icon # Cfg.title_icons[1].v

\* C16 witness of the second half: no token is a key and the first key in mapping order
\* that occurs in the title won
C16_ScanWitness ==
    /\ Returned
    /\ last.result.source = "title_icon"
    /\ Request.title = <<"h","t","o","p","m","e",".","x">>
    /\ KeyTokenSpans = {}
    /\ SubstringKeys = {1, 2}
    /\ last.result.icon = Cfg.title_icons[1].v

\* the text loaded by the last call
Text == LoadedFile.lines

\* line i is a key: value entry of the block
ScalarAt(i) == _get_indent_level(Text[i]) = 2 /\ EntryLine(Text[i])

\* line i is a key: line of the block
NestedKeyAt(i) ==
    /\ _get_indent_level(Text[i]) = 2
    /\ Contains(Text[i], <<":">>)
    /\ strip(SplitHead(strip(Text[i]), <<":">>)) # <<>>
    /\ strip(SplitTail(strip(Text[i]), <<":">>)) = <<>>

\* line i is a key: value line nested under a key: line
NestedEntryAt(i) == _get_indent_level(Text[i]) = 4 /\ EntryLine(Text[i])

\* the text is an icons block of entries alone: key: value lines, and key: lines with
\* their nested key: value lines
PlainIconsBlock ==
    /\ Len(Text) >= 2
    /\ Text[1] = <<"i","c","o","n","s",":">>
    /\ \A i \in 2..Len(Text) :
          \/ ScalarAt(i)
          \/ NestedKeyAt(i)
          \/ NestedEntryAt(i) /\ i > 2 /\ (NestedKeyAt(i - 1) \/ NestedEntryAt(i - 1))

KeyAt(i) == strip(SplitHead(strip(Text[i]), <<":">>))

ScalarValueAt(i) == strip(SplitTail(strip(Text[i]), <<":">>))

\* the lines nested under the key: line i
NestedLinesOf(i) == {j \in (i + 1)..Len(Text) : \A m \in (i + 1)..j : NestedEntryAt(m)}

\* line i is an occurrence of its key with a value: a scalar, or a nested block with
\* entries (a key whose nested block is empty is dropped)
OccurrenceAt(i) == ScalarAt(i) \/ (NestedKeyAt(i) /\ NestedLinesOf(i) # {})

\* v is the value of the occurrence at line i, the nested block itself last-write-wins
ValueOfOccurrence(v, i) ==
    IF ScalarAt(i) THEN v = Str(ScalarValueAt(i))
    ELSE /\ v = Dict(v.d)
         /\ Len(v.d) = Cardinality({KeyAt(j) : j \in NestedLinesOf(i)})
         /\ \A j \in NestedLinesOf(i) :
               (\A m \in NestedLinesOf(i) : KeyAt(m) = KeyAt(j) => m <= j)
                  => \E a \in 1..Len(v.d) :
                        v.d[a] = [k |-> KeyAt(j), v |-> Str(ScalarValueAt(j))]

C15_IndentedLabelStartsNoSection ==
    (/\ last.op = "load_config"
     /\ last.raised = ""
     /\ \A i \in 1..Len(Text) :
           strip(Text[i]) = <<"s","e","s","s","i","o","n","s",":">> => _get_indent_level(Text[i]) > 0)
        => last.config[1].sessions = <<>>

\* C17: in a parsed configuration at most one icons key equals a given process name
\* under case-insensitive comparison, so the match of the process tier is the only one.
C17_OneKeyPerProcessName ==
    (last.op = "load_config" /\ last.raised = "") =>
        \A a, b \in 1..Len(last.config[1].icons) :
            lower(last.config[1].icons[a].k) = lower(last.config[1].icons[b].k) => a = b

\* C18: no top-level label line is parsed as an entry of another section; when icons:
\* is directly followed by the top-level label sessions: the icons mapping is empty and
\* has no key sessions.
C18_SectionsDoNotLeak ==
    (last.op = "load_config" /\ last.raised = "") =>
        /\ (\A i \in 1..Len(Text) :
               strip(Text[i]) = <<"s","e","s","s","i","o","n","s",":">> => _get_indent_level(Text[i]) = 0)
              => ~DictHas(last.config[1].icons, <<"s","e","s","s","i","o","n","s">>)
        /\ (Len(Text) >= 2 /\ Text[1] = <<"i","c","o","n","s",":">> /\ Text[2] = <<"s","e","s","s","i","o","n","s",":">>)
              => last.config[1].icons = <<>>

\* C19: a get_config call that raises leaves the cached configuration, the cached path
\* and the recorded mtime as they were, and a get_config call after it for the cached
\* path, the file's mtime being the recorded one, returns the cached configuration.
C19_FailedReloadKeepsCache ==
    [][/\ (last'.op = "get_config" /\ last'.raised # "")
             => UNCHANGED <<_config_cache, _config_mtime, _config_path_cache>>
       /\ (/\ last.op = "get_config"
           /\ last.raised # ""
           /\ _config_cache # <<>>
           /\ last'.op = "get_config"
           /\ expanduser(last'.path) = _config_path_cache
           /\ files[_config_path_cache].exists
           /\ files[_config_path_cache].mtime = _config_mtime)
             => /\ last'.raised = ""
                /\ ~last'.loads
                /\ last'.config = _config_cache
                /\ UNCHANGED <<_config_cache, _config_mtime, _config_path_cache>>]_vars

\* C19 witness: a call for another path has raised while a configuration was cached
\* whose file still has the recorded mtime
C19_Witness ==
    /\ last.op = "get_config"
    /\ last.raised # ""
    /\ last.loads
    /\ _config_cache # <<>>
    /\ _config_path_cache # expanduser(last.path)
    /\ files[_config_path_cache].exists
    /\ files[_config_path_cache].mtime = _config_mtime

\* C21: whenever parse_ssh_host returns a hostname rather than absent, the hostname is a
\* non-empty string; a target specification that normalizes to nothing (user@, :22, [])
\* yields absent.
C21_HostnameNonEmpty ==
    last.op \in {"parse_ssh_host", "ssh_host"} =>
        \/ last.result = None
        \/ last.result = Str(last.result.s) /\ last.result.s # <<>>

(***************************************************************************)
(* _parse_nested_block step by step: the while loop of every activation,   *)
(* one loop iteration or one call or return at a time                      *)
(***************************************************************************)
\* at most how many lines follow the key line of the nested block
MaxNestedLines == 3

\* the texts: an icons entry vim: and below it nested keys three levels deep, entries,
\* a line without a colon, a blank line and the next entry of the icons block
NestedTexts ==
    {<<<<"i","c","o","n","s",":">>, <<" "," ","v","i","m",":">>>> \o ls :
        ls \in UNION {[1..n ->
                          {<<" "," "," "," ","t","i","t","l","e",":">>, <<" "," "," "," "," "," ","s","u","b",":">>, <<" "," "," "," "," "," "," "," ","k",":"," ","v">>, <<" "," "," "," ","i","c","o","n",":"," ","Z">>,
                           <<" "," "," "," ","g","a","r","b","a","g","e">>, <<>>, <<" "," ","z","s","h",":"," ","Q">>}] : n \in 0..MaxNestedLines}}

\* the call _parse_nested_section makes for the entry vim: of the text: one activation
\* with idx = start_idx, result = {} and block_indent = None
InitNested ==
    /\ files = NoFiles
    /\ _config_cache = <<>>
    /\ _config_mtime = 0
    /\ _config_path_cache = ""
    /\ \E text \in NestedTexts :
          last = [op |-> "call", lines |-> text,
                  stack |-> <<[idx |-> 3, start_idx |-> 3, base_indent |-> 2,
                               block_indent |-> NoIndent, result |-> <<>>, key |-> <<>>]>>,
                  ret |-> [result |-> <<>>, idx |-> 0]]

\* the innermost activation
TopFrame == last.stack[Len(last.stack)]

\* the line at idx of the innermost activation as the loop body reads it
\* (each intermediate value is bound once, as a local variable of the loop body is)
CurrentLine ==
    CHOOSE line \in UNION UNION {{{
        [blank |-> stripped = <<>> \/ stripped[1] = "#",
         current_indent |-> current_indent,
         block_indent |-> IF TopFrame.block_indent = NoIndent THEN current_indent
                          ELSE TopFrame.block_indent,
         colon |-> Contains(stripped, <<":">>),
         key |-> key,
         rest |-> rest]
          : key \in {_normalize_yaml_key(key_part, FALSE)}, rest \in {strip(val_part)}}
          : key_part \in {SplitHead(stripped, <<":">>)},
            val_part \in {SplitTail(stripped, <<":">>)}}
          : stripped \in {strip(last.lines[TopFrame.idx])},
            current_indent \in {_get_indent_level(last.lines[TopFrame.idx])}} : TRUE

\* the caller going on at the key line it called from
ResumeAtKeyLine(caller, returned_idx) == caller.idx

\* nested, idx = _parse_nested_block(...): where the caller goes on after the call
ResumeAt(caller, returned_idx) == returned_idx

\* the loop ends at the end of the lines or at a dedent, and the activation returns
\* (result, idx) to its caller, or to _parse_nested_section
NestedReturn ==
    /\ last.stack # <<>>
    /\ IF TopFrame.idx > Len(last.lines) THEN TRUE
       ELSE \E line \in {CurrentLine} :
               ~line.blank /\ line.current_indent <= TopFrame.base_indent
    /\ LET n == Len(last.stack)
           ret == [result |-> TopFrame.result, idx |-> TopFrame.idx]
       IN  IF n = 1
           THEN last' = [last EXCEPT !.op = "returned", !.stack = <<>>, !.ret = ret]
           ELSE last' = [last EXCEPT
                            !.op = "return",
                            !.ret = ret,
                            !.stack = SubSeq(last.stack, 1, n - 2) \o
                                <<[last.stack[n - 1] EXCEPT
                                      !.idx = ResumeAt(last.stack[n - 1], ret.idx),
                                      !.result = IF ret.result # <<>>
                                                 THEN DictSet(@, last.stack[n - 1].key, Dict(ret.result))
                                                 ELSE @]>>]
    /\ UNCHANGED <<files, _config_cache, _config_mtime, _config_path_cache>>

\* idx += 1; continue: a blank line or a comment, a line deeper than the block, a line
\* without a colon, an empty key
NestedSkip ==
    /\ last.stack # <<>>
    /\ TopFrame.idx <= Len(last.lines)
    /\ \E line \in {CurrentLine} :
          /\ \/ line.blank
             \/ /\ line.current_indent > TopFrame.base_indent
                /\ \/ line.current_indent > line.block_indent
                   \/ ~line.colon
                   \/ line.key = <<>>
          /\ last' = [last EXCEPT
                         !.op = "skip",
                         !.stack[Len(last.stack)] =
                             [@ EXCEPT !.idx = @ + 1,
                                       !.block_indent = IF line.blank THEN @
                                                        ELSE line.block_indent]]
    /\ UNCHANGED <<files, _config_cache, _config_mtime, _config_path_cache>>

\* the line is an entry of the block at this activation's indentation
EntryAtBlockIndent(line) ==
    /\ ~line.blank
    /\ line.current_indent > TopFrame.base_indent
    /\ line.current_indent <= line.block_indent
    /\ line.colon
    /\ line.key # <<>>

\* result[key] = _strip_yaml_value(rest); idx += 1
NestedInline ==
    /\ last.stack # <<>>
    /\ TopFrame.idx <= Len(last.lines)
    /\ \E line \in {CurrentLine} :
          /\ EntryAtBlockIndent(line)
          /\ _is_inline_yaml_value(line.rest)
          /\ last' = [last EXCEPT
                         !.op = "inline",
                         !.stack[Len(last.stack)] =
                             [@ EXCEPT !.idx = @ + 1,
                                       !.block_indent = line.block_indent,
                                       !.result = DictSet(@, line.key,
                                                          Str(_strip_yaml_value(line.rest)))]]
    /\ UNCHANGED <<files, _config_cache, _config_mtime, _config_path_cache>>

\* the call _parse_nested_block(lines, idx + 1, current_indent) for a key without a value
NestedRecurse ==
    /\ last.stack # <<>>
    /\ TopFrame.idx <= Len(last.lines)
    /\ \E line \in {CurrentLine} :
          /\ EntryAtBlockIndent(line)
          /\ ~_is_inline_yaml_value(line.rest)
          /\ last' = [last EXCEPT
                         !.op = "call",
                         !.stack = SubSeq(last.stack, 1, Len(last.stack) - 1) \o
                             <<[TopFrame EXCEPT !.block_indent = line.block_indent,
                                                !.key = line.key],
                               [idx |-> TopFrame.idx + 1, start_idx |-> TopFrame.idx + 1,
                                base_indent |-> line.current_indent,
                                block_indent |-> NoIndent, result |-> <<>>, key |-> <<>>]>>]
    /\ UNCHANGED <<files, _config_cache, _config_mtime, _config_path_cache>>

NextNested == NestedReturn \/ NestedSkip \/ NestedInline \/ NestedRecurse

SpecNested == InitNested /\ [][NextNested]_vars

\* the interpreter goes on with the next step as long as there is one
FairSpecNested == SpecNested /\ WF_vars(NextNested)

\* C22: parsing terminates for every finite text: in _parse_nested_block every loop
\* iteration, the one that makes a recursive call for a deeper block included, strictly
\* advances the line index; the recursion depth is bounded by the number of lines; the
\* end index an activation returns is never smaller than its start index; and the
\* outermost activation returns.
C22_ParsingTerminates ==
    /\ [][LET n == Len(last.stack)
              m == Len(last'.stack)
          IN  /\ m = n => last'.stack[n].idx > last.stack[n].idx
              /\ m = n + 1 =>
                    /\ last'.stack[m].start_idx > last.stack[n].idx
                    /\ last'.stack[m].idx = last'.stack[m].start_idx
              /\ m = n - 1 =>
                    /\ last'.ret.idx >= last.stack[n].start_idx
                    /\ m >= 1 => last'.stack[m].idx > last.stack[m].idx]_vars
    /\ [](Len(last.stack) <= Len(last.lines))
    /\ <>(last.op = "returned")

\* C22 witness: the block of a text nested three levels deep has been parsed to its end
C22_Witness ==
    /\ last.op = "returned"
    /\ last.lines = <<<<"i","c","o","n","s",":">>, <<" "," ","v","i","m",":">>, <<" "," "," "," ","t","i","t","l","e",":">>, <<" "," "," "," "," "," ","s","u","b",":">>, <<" "," "," "," "," "," "," "," ","k",":"," ","v">>>>
    /\ last.ret.idx = Len(last.lines) + 1
    /\ last.ret.result =
           <<[k |-> <<"t","i","t","l","e">>,
              v |-> Dict(<<[k |-> <<"s","u","b">>, v |-> Dict(<<[k |-> <<"k">>, v |-> Str(<<"v">>)]>>)]>>)]>>

====
